---- MODULE Spec2Model ----
(***************************************************************************)
(* BirdWar: the grid spatial model and path finder (class GridManager,     *)
(* kept in assets/resources/main/scrpits/EventManagerExample.ts).          *)
(*                                                                         *)
(* A grid is a function from the in-bounds coordinates <<row, col>> to     *)
(* cell records.  A value that may be null in the TypeScript source is a    *)
(* sequence of length 0 (null) or 1 (the value).                           *)
(***************************************************************************)
EXTENDS Integers, Sequences, FiniteSets, TLC

VARIABLES
    rows,        \* GridManager.rows
    cols,        \* GridManager.cols
    cellWidth,   \* GridManager.cellWidth
    cellHeight,  \* GridManager.cellHeight
    startPosition, \* GridManager.startPosition, <<x, y, z>>
    grid,        \* GridManager._grid
    last,        \* the call that was made last and its result
    steps,       \* number of calls made so far
    \* WeaponsSystem (core/WeaponsSystem.ts), the director's clock and the bullet nodes
    started,            \* start() has run
    firePoint,          \* WeaponsSystem.firePoint is set (TRUE) or null (FALSE)
    currentWeaponType,  \* WeaponsSystem.currentWeaponType
    bulletPrefabs,      \* the weapon types i for which bulletPrefabs[i] is a prefab
    autoFire,           \* WeaponsSystem.autoFire
    currentEnergy,      \* WeaponsSystem.currentEnergy, in tenths
    maxEnergy,          \* WeaponsSystem.maxEnergy, in tenths
    energyRegenRate,    \* WeaponsSystem.energyRegenRate, per second
    weaponConfigs,      \* WeaponsSystem._weaponConfigs
    bulletPools,        \* WeaponsSystem._bulletPools
    activeBullets,      \* WeaponsSystem._activeBullets
    lastFireTime,       \* WeaponsSystem._lastFireTime, in tenths of a second
    cooldownEndTime,    \* WeaponsSystem._cooldownEndTime, in tenths of a second
    totalTime,          \* director.getTotalTime() / 1000, in tenths of a second
    nodes,              \* the bullet nodes and their Bullet components
    emitted,            \* the notifications emitted by the last call
    outcome,            \* the call on the weapons made last and its result
    firedAt,            \* history: when each weapon type made its last successful fire
    \* EventManager (EventManager.ts)
    eventListeners,     \* EventManager._eventListeners
    listenerCount,      \* number of listener objects made so far: the next one's identity
    invocations,        \* history: the callbacks run so far, in order
    emits,              \* history: the listeners that each run of emit found registered
    removed,            \* history: the listeners that off and clearTargetListeners removed
    eventCall           \* the call on the event manager made last

gridFields == <<rows, cols, cellWidth, cellHeight, startPosition, grid, last>>

gridVars == <<gridFields, steps>>

weaponVars == <<started, firePoint, currentWeaponType, bulletPrefabs, autoFire, currentEnergy,
                maxEnergy, energyRegenRate, weaponConfigs, bulletPools, activeBullets,
                lastFireTime, cooldownEndTime, totalTime, nodes, emitted, outcome,
                firedAt>>

eventVars == <<eventListeners, listenerCount, invocations, emits, removed, eventCall>>

vars == <<gridVars, weaponVars, eventVars>>

(***************************************************************************)
(* Bounds of the model.                                                    *)
(***************************************************************************)
\* largest row index a caller passes (the smallest is -1)
MaxRow == 1
\* largest column index a caller passes (the smallest is -1)
MaxCol == 1
\* largest number of rows a caller configures
MaxGridRows == 2
\* largest number of columns a caller configures
MaxGridCols == 3
\* number of calls made on the grid in one behaviour
MaxSteps == 2

(***************************************************************************)
(* Program constants.                                                      *)
(***************************************************************************)
DefaultRows == 5
DefaultCols == 9
DefaultCellWidth == 100
DefaultCellHeight == 100
DefaultStartPosition == <<-400, 200, 0>>
\* JavaScript's Infinity: larger than every finite score, and Infinity + 1 = Infinity
Infinity == 1000000

EMPTY == "empty"
PLANT_ZONE == "plant_zone"
PATH == "path"
SPAWN == "spawn"
GOAL == "goal"
OBSTACLE == "obstacle"
SPECIAL == "special"

GridCellType == {EMPTY, PLANT_ZONE, PATH, SPAWN, GOAL, OBSTACLE, SPECIAL}

\* null, and a non-null value v
Null == <<>>
Some(v) == <<v>>

\* the occupants (scene nodes) a caller may place; "null" is no occupant
Occupants == {"o1", "o2"}
NoOccupant == "null"

(***************************************************************************)
(* Cells.                                                                  *)
(***************************************************************************)

ConfigureCellByType(cell) ==
    CASE cell.cellType = SPAWN      -> [cell EXCEPT !.walkable = TRUE,  !.buildable = FALSE]
      [] cell.cellType = GOAL       -> [cell EXCEPT !.walkable = TRUE,  !.buildable = FALSE]
      [] cell.cellType = PLANT_ZONE -> [cell EXCEPT !.walkable = FALSE, !.buildable = TRUE]
      [] cell.cellType = PATH       -> [cell EXCEPT !.walkable = TRUE,  !.buildable = FALSE]
      [] cell.cellType = OBSTACLE   -> [cell EXCEPT !.walkable = FALSE, !.buildable = FALSE]
      [] OTHER                      -> [cell EXCEPT !.walkable = TRUE,  !.buildable = TRUE]

\* a plausible slip: the two column tests in the other order
DetermineCellTypeGoalFirst(nCols, row, col) ==
    IF col = 0 THEN GOAL
    ELSE IF col = nCols - 1 THEN SPAWN
    ELSE IF col >= 1 /\ col <= nCols - 2 THEN PLANT_ZONE
    ELSE EMPTY

DetermineCellType(nCols, row, col) ==
    IF col = nCols - 1 THEN SPAWN
    ELSE IF col = 0 THEN GOAL
    ELSE IF col >= 1 /\ col <= nCols - 2 THEN PLANT_ZONE
    ELSE EMPTY

CreateGridCell(nCols, row, col) ==
    ConfigureCellByType([occupied  |-> FALSE,
                         occupant  |-> NoOccupant,
                         cellType  |-> DetermineCellType(nCols, row, col),
                         walkable  |-> TRUE,
                         buildable |-> TRUE])

\* the loops of initializeGrid run row = 0 .. nRows-1 and col = 0 .. nCols-1
InitializeGrid(nRows, nCols) ==
    [rc \in (0 .. nRows - 1) \X (0 .. nCols - 1) |-> CreateGridCell(nCols, rc[1], rc[2])]

IsValidCoordinate(nRows, nCols, row, col) ==
    row >= 0 /\ row < nRows /\ col >= 0 /\ col < nCols

GetCell(g, nRows, nCols, row, col) ==
    IF ~IsValidCoordinate(nRows, nCols, row, col) THEN Null ELSE Some(g[<<row, col>>])

\* `cell && !cell.occupied && cell.buildable`: null when there is no cell
CanPlaceAt(g, nRows, nCols, row, col) ==
    LET cell == GetCell(g, nRows, nCols, row, col)
    IN  IF cell = Null THEN "null"
        ELSE IF ~cell[1].occupied /\ cell[1].buildable THEN "true" ELSE "false"

\* `cell && cell.walkable && !cell.occupied`: null when there is no cell
CanWalkAt(g, nRows, nCols, row, col) ==
    LET cell == GetCell(g, nRows, nCols, row, col)
    IN  IF cell = Null THEN "null"
        ELSE IF cell[1].walkable /\ ~cell[1].occupied THEN "true" ELSE "false"

(***************************************************************************)
(* Neighbours and the path finder.                                         *)
(***************************************************************************)
\* a plausible slip: the diagonal directions appended after the four orthogonal ones
DirectionsDiagonalsLast(includeDiagonal) ==
    IF includeDiagonal
    THEN << <<-1, 0>>, <<0, -1>>, <<0, 1>>, <<1, 0>>, <<-1, -1>>, <<-1, 1>>, <<1, -1>>, <<1, 1>> >>
    ELSE << <<-1, 0>>, <<0, -1>>, <<0, 1>>, <<1, 0>> >>

Directions(includeDiagonal) ==
    IF includeDiagonal
    THEN << <<-1, -1>>, <<-1, 0>>, <<-1, 1>>, <<0, -1>>, <<0, 1>>, <<1, -1>>, <<1, 0>>, <<1, 1>> >>
    ELSE << <<-1, 0>>, <<0, -1>>, <<0, 1>>, <<1, 0>> >>

\* the coordinates of the cells getNeighborCells returns, in the order it pushes them
GetNeighborCells(g, nRows, nCols, row, col, includeDiagonal) ==
    LET dirs == Directions(includeDiagonal)
        all  == [i \in 1 .. Len(dirs) |-> <<row + dirs[i][1], col + dirs[i][2]>>]
    IN  SelectSeq(all, LAMBDA rc : GetCell(g, nRows, nCols, rc[1], rc[2]) # Null)

Abs(x) == IF x < 0 THEN -x ELSE x

Heuristic(a, b) == Abs(a[1] - b[1]) + Abs(a[2] - b[2])

\* getKey builds "row,col"; two integer coordinates have the same key exactly
\* when they are equal, so the coordinate itself is the key
GetKey(coord) == coord

EmptyMap == [k \in {} |-> 0]

MapSet(map, key, v) == [k \in DOMAIN map \cup {key} |-> IF k = key THEN v ELSE map[k]]

\* `map.get(key) || Infinity`: Infinity for an absent key and for every falsy
\* score, that is for a stored 0 as well
OrInfinity(map, key) ==
    IF key \in DOMAIN map /\ map[key] # 0 THEN map[key] ELSE Infinity

\* x + y in floating point, where Infinity + y = Infinity
Plus(x, y) == IF x = Infinity THEN Infinity ELSE x + y

\* lines 888-896: the first index of openSet whose fScore is the smallest
RECURSIVE ScanLowest(_, _, _, _)
ScanLowest(openSet, fScore, i, currentIndex) ==
    IF i > Len(openSet) THEN currentIndex
    ELSE ScanLowest(openSet, fScore, i + 1,
                    IF OrInfinity(fScore, GetKey(openSet[i]))
                         < OrInfinity(fScore, GetKey(openSet[currentIndex]))
                    THEN i ELSE currentIndex)

\* a plausible slip: only the rows are compared
ReachedEndRowOnly(current, end) == current[1] = end[1]

ReachedEnd(current, end) == current[1] = end[1] /\ current[2] = end[2]

\* a plausible slip: the loop stops at the start cell instead of adding it
RECURSIVE ReconstructPathSkipStart(_, _, _)
ReconstructPathSkipStart(cameFrom, temp, path) ==
    IF GetKey(temp) \in DOMAIN cameFrom
    THEN ReconstructPathSkipStart(cameFrom, cameFrom[GetKey(temp)], <<temp>> \o path)
    ELSE path

\* lines 900-906: unshift temp, then follow cameFrom until it has no entry
RECURSIVE ReconstructPath(_, _, _)
ReconstructPath(cameFrom, temp, path) ==
    IF GetKey(temp) \in DOMAIN cameFrom
    THEN ReconstructPath(cameFrom, cameFrom[GetKey(temp)], <<temp>> \o path)
    ELSE <<temp>> \o path

RemoveAt(seq, i) == SubSeq(seq, 1, i - 1) \o SubSeq(seq, i + 1, Len(seq))

\* lines 913-926: one neighbour of current
RelaxNeighbor(g, s, current, neighbor, end) ==
    IF ~g[neighbor].walkable THEN s
    ELSE LET tentativeGScore == Plus(OrInfinity(s.gScore, GetKey(current)), 1)
         IN  IF tentativeGScore < OrInfinity(s.gScore, GetKey(neighbor))
             THEN [openSet  |-> IF \E i \in 1 .. Len(s.openSet) : s.openSet[i] = neighbor
                                THEN s.openSet ELSE Append(s.openSet, neighbor),
                   cameFrom |-> MapSet(s.cameFrom, GetKey(neighbor), current),
                   gScore   |-> MapSet(s.gScore, GetKey(neighbor), tentativeGScore),
                   fScore   |-> MapSet(s.fScore, GetKey(neighbor),
                                       Plus(tentativeGScore, Heuristic(neighbor, end)))]
             ELSE s

RECURSIVE RelaxNeighbors(_, _, _, _, _, _)
RelaxNeighbors(g, s, current, neighbors, i, end) ==
    IF i > Len(neighbors) THEN s
    ELSE RelaxNeighbors(g, RelaxNeighbor(g, s, current, neighbors[i], end),
                        current, neighbors, i + 1, end)

\* lines 886-930: the open-set loop; Null when the open set runs empty
RECURSIVE AStarLoop(_, _, _, _, _)
AStarLoop(g, nRows, nCols, s, end) ==
    IF Len(s.openSet) = 0 THEN Null
    ELSE LET currentIndex == ScanLowest(s.openSet, s.fScore, 2, 1)
             current      == s.openSet[currentIndex]
         IN  IF ReachedEnd(current, end)
             THEN Some(ReconstructPath(s.cameFrom, current, <<>>))
             ELSE AStarLoop(g, nRows, nCols,
                            RelaxNeighbors(g, [s EXCEPT !.openSet = RemoveAt(s.openSet, currentIndex)],
                                           current,
                                           GetNeighborCells(g, nRows, nCols, current[1], current[2], FALSE),
                                           1, end),
                            end)

InitialSearch(start, end) ==
    [openSet  |-> <<start>>,
     cameFrom |-> EmptyMap,
     gScore   |-> MapSet(EmptyMap, GetKey(start), 0),
     fScore   |-> MapSet(EmptyMap, GetKey(start), Heuristic(start, end))]

\* a plausible slip: the bounds check at the top is missing
FindPathNoBoundsCheck(g, nRows, nCols, start, end) ==
    AStarLoop(g, nRows, nCols, InitialSearch(start, end), end)

\* a plausible slip: an occupied end point is refused
FindPathUnoccupiedEndpoints(g, nRows, nCols, start, end) ==
    IF \/ ~IsValidCoordinate(nRows, nCols, start[1], start[2])
       \/ ~IsValidCoordinate(nRows, nCols, end[1], end[2])
    THEN Null
    ELSE IF g[start].occupied \/ g[end].occupied
    THEN Null
    ELSE AStarLoop(g, nRows, nCols, InitialSearch(start, end), end)

\* findPath: Null, or Some(path)
FindPath(g, nRows, nCols, start, end) ==
    IF \/ ~IsValidCoordinate(nRows, nCols, start[1], start[2])
       \/ ~IsValidCoordinate(nRows, nCols, end[1], end[2])
    THEN Null
    ELSE AStarLoop(g, nRows, nCols, InitialSearch(start, end), end)

(***************************************************************************)
(* Weapons: the weapon types and their configuration (core/WeaponType.ts). *)
(* Times are in tenths of a second, energy in tenths of a unit, fire rates *)
(* in shots per ten seconds: every default value is then an integer.       *)
(***************************************************************************)
BULLET_TYPE_NORMAL == 0
BULLET_TYPE_CANNON == 1
BULLET_TYPE_MULTIPLE == 2
BULLET_TYPE_LASER == 3

WeaponType == {BULLET_TYPE_NORMAL, BULLET_TYPE_CANNON, BULLET_TYPE_MULTIPLE, BULLET_TYPE_LASER}

DEFAULT_WEAPON_CONFIGS ==
    [t \in WeaponType |->
        CASE t = BULLET_TYPE_NORMAL ->
               [type |-> BULLET_TYPE_NORMAL, damage |-> 10, fireRate |-> 20, bulletSpeed |-> 500,
                bulletLifetime |-> 30, bulletCount |-> 1, spreadAngle |-> 0, penetration |-> 0,
                explosionRadius |-> 0, energyCost |-> 10, cooldown |-> 0]
          [] t = BULLET_TYPE_CANNON ->
               [type |-> BULLET_TYPE_CANNON, damage |-> 50, fireRate |-> 5, bulletSpeed |-> 300,
                bulletLifetime |-> 40, bulletCount |-> 1, spreadAngle |-> 0, penetration |-> 2,
                explosionRadius |-> 80, energyCost |-> 50, cooldown |-> 10]
          [] t = BULLET_TYPE_MULTIPLE ->
               [type |-> BULLET_TYPE_MULTIPLE, damage |-> 8, fireRate |-> 30, bulletSpeed |-> 450,
                bulletLifetime |-> 25, bulletCount |-> 3, spreadAngle |-> 30, penetration |-> 0,
                explosionRadius |-> 0, energyCost |-> 30, cooldown |-> 2]
          [] t = BULLET_TYPE_LASER ->
               [type |-> BULLET_TYPE_LASER, damage |-> 25, fireRate |-> 50, bulletSpeed |-> 1000,
                bulletLifetime |-> 15, bulletCount |-> 1, spreadAngle |-> 0, penetration |-> 5,
                explosionRadius |-> 0, energyCost |-> 20, cooldown |-> 0]]

\* the field defaults of a WeaponsSystem; the energies are 100 units
DefaultEnergy == 1000
DefaultEnergyRegenRate == 5

\* a map from weapon types that has no entry
NoEntries == [t \in WeaponType |-> Null]

\* a WeaponsSystem as its constructor leaves it, with the properties the scene gives it
WeaponsConstructed(prefabs, point, weaponType, auto, energy, maxE, regen) ==
    /\ started = FALSE
    /\ firePoint = point
    /\ currentWeaponType = weaponType
    /\ bulletPrefabs = prefabs
    /\ autoFire = auto
    /\ currentEnergy = energy
    /\ maxEnergy = maxE
    /\ energyRegenRate = regen
    /\ weaponConfigs = NoEntries
    /\ bulletPools = NoEntries
    /\ activeBullets = {}
    /\ lastFireTime = 0
    /\ cooldownEndTime = 0
    /\ totalTime = 0
    /\ nodes = <<>>
    /\ emitted = <<>>
    /\ outcome = [op |-> "constructor", ret |-> "void", fired |-> FALSE]
    /\ firedAt = NoEntries

\* the scene of the grid has a WeaponsSystem with its field defaults, which is never called
WeaponsUnused ==
    WeaponsConstructed({}, FALSE, BULLET_TYPE_NORMAL, FALSE,
                       DefaultEnergy, DefaultEnergy, DefaultEnergyRegenRate)

(***************************************************************************)
(* The event manager as its constructor leaves it (EventManager.ts).       *)
(***************************************************************************)
EventTypes == {"game-start"}

EventManagerConstructed ==
    /\ eventListeners = [t \in EventTypes |-> Null]
    /\ listenerCount = 0
    /\ invocations = <<>>
    /\ emits = <<>>
    /\ removed = {}
    /\ eventCall = [op |-> "constructor"]

\* what the grid and the weapons start with: no weapon is used, no event listened to
OthersUnused == WeaponsUnused /\ EventManagerConstructed

(***************************************************************************)
(* The calls.                                                              *)
(***************************************************************************)
RowInputs == -1 .. MaxRow
ColInputs == -1 .. MaxCol
Coords == RowInputs \X ColInputs

\* A call that changes the grid leaves its name and its result in `last`; what
\* it was called with is read off the step itself.  A query changes nothing, so
\* the calls after it see the grid they would have seen without it: a query
\* is the last call of a behaviour, and `last` keeps its arguments as well.
NoCoord == <<-1, -1>>

Mutation(op, ret) == [op |-> op, a |-> NoCoord, b |-> NoCoord, ret |-> ret, path |-> <<>>]

Query(op, a, b, ret, path) == [op |-> op, a |-> a, b |-> b, ret |-> ret, path |-> path]

\* the grid with its field defaults, after onLoad
GridLoaded ==
    /\ rows = DefaultRows
    /\ cols = DefaultCols
    /\ cellWidth = DefaultCellWidth
    /\ cellHeight = DefaultCellHeight
    /\ startPosition = DefaultStartPosition
    /\ grid = InitializeGrid(DefaultRows, DefaultCols)
    /\ last = Mutation("onLoad", "void")
    /\ steps = 0

Init == GridLoaded /\ OthersUnused

\* a plausible slip: the type is stored but walkable/buildable are not derived again
SetCellTypeNoConfigure(row, col, cellType) ==
    LET cell == GetCell(grid, rows, cols, row, col)
    IN  /\ steps < MaxSteps
        /\ steps' = steps + 1
        /\ IF cell = Null
           THEN /\ last' = Mutation("setCellType", "false")
                /\ UNCHANGED grid
           ELSE /\ grid' = [grid EXCEPT ![<<row, col>>] = [cell[1] EXCEPT !.cellType = cellType]]
                /\ last' = Mutation("setCellType", "true")
        /\ UNCHANGED <<rows, cols, cellWidth, cellHeight>>

SetCellType(row, col, cellType) ==
    LET cell == GetCell(grid, rows, cols, row, col)
    IN  /\ steps < MaxSteps
        /\ steps' = steps + 1
        /\ IF cell = Null
           THEN /\ last' = Mutation("setCellType", "false")
                /\ UNCHANGED grid
           ELSE /\ grid' = [grid EXCEPT ![<<row, col>>] =
                                ConfigureCellByType([cell[1] EXCEPT !.cellType = cellType])]
                /\ last' = Mutation("setCellType", "true")
        /\ UNCHANGED <<rows, cols, cellWidth, cellHeight>>

\* the body of setCellOccupied: the result and the grid it leaves
SetCellOccupiedNoBuildableCheck(g, nRows, nCols, row, col, occupant) ==
    LET cell == GetCell(g, nRows, nCols, row, col)
    IN  IF cell = Null THEN [ret |-> "false", grid |-> g]
        ELSE IF occupant # NoOccupant /\ cell[1].occupied THEN [ret |-> "false", grid |-> g]
        ELSE [ret  |-> "true",
              grid |-> [g EXCEPT ![<<row, col>>] =
                           [cell[1] EXCEPT !.occupied = (occupant # NoOccupant),
                                           !.occupant = occupant]]]

\* a plausible slip: an occupied cell is given to another occupant
SetCellOccupiedBodyNoOccupiedCheck(g, nRows, nCols, row, col, occupant) ==
    LET cell == GetCell(g, nRows, nCols, row, col)
    IN  IF cell = Null THEN [ret |-> "false", grid |-> g]
        ELSE IF occupant # NoOccupant /\ ~cell[1].buildable THEN [ret |-> "false", grid |-> g]
        ELSE [ret  |-> "true",
              grid |-> [g EXCEPT ![<<row, col>>] =
                           [cell[1] EXCEPT !.occupied = (occupant # NoOccupant),
                                           !.occupant = occupant]]]

SetCellOccupiedBody(g, nRows, nCols, row, col, occupant) ==
    LET cell == GetCell(g, nRows, nCols, row, col)
    IN  IF cell = Null THEN [ret |-> "false", grid |-> g]
        ELSE IF occupant # NoOccupant /\ cell[1].occupied THEN [ret |-> "false", grid |-> g]
        ELSE IF occupant # NoOccupant /\ ~cell[1].buildable THEN [ret |-> "false", grid |-> g]
        ELSE [ret  |-> "true",
              grid |-> [g EXCEPT ![<<row, col>>] =
                           [cell[1] EXCEPT !.occupied = (occupant # NoOccupant),
                                           !.occupant = occupant]]]

SetCellOccupied(row, col, occupant) ==
    LET r == SetCellOccupiedBody(grid, rows, cols, row, col, occupant)
    IN  /\ steps < MaxSteps
        /\ steps' = steps + 1
        /\ grid' = r.grid
        /\ last' = Mutation("setCellOccupied", r.ret)
        /\ UNCHANGED <<rows, cols, cellWidth, cellHeight>>

\* clearCell(row, col) is setCellOccupied(row, col, null)
ClearCell(row, col) ==
    LET r == SetCellOccupiedBody(grid, rows, cols, row, col, NoOccupant)
    IN  /\ steps < MaxSteps
        /\ steps' = steps + 1
        /\ grid' = r.grid
        /\ last' = Mutation("clearCell", r.ret)
        /\ UNCHANGED <<rows, cols, cellWidth, cellHeight>>

\* reconfigureGrid: every field the caller gives is stored, then the grid is built again
ReconfigureGrid(cfg) ==
    /\ steps < MaxSteps
    /\ steps' = steps + 1
    /\ rows' = IF cfg.rows # Null THEN cfg.rows[1] ELSE rows
    /\ cols' = IF cfg.cols # Null THEN cfg.cols[1] ELSE cols
    /\ cellWidth' = IF cfg.cellWidth # Null THEN cfg.cellWidth[1] ELSE cellWidth
    /\ cellHeight' = IF cfg.cellHeight # Null THEN cfg.cellHeight[1] ELSE cellHeight
    /\ grid' = InitializeGrid(rows', cols')
    /\ last' = Mutation("reconfigureGrid", "void")

GetCellCall(row, col) ==
    /\ steps < MaxSteps
    /\ steps' = MaxSteps
    /\ last' = Query("getCell", <<row, col>>, NoCoord,
                     IF GetCell(grid, rows, cols, row, col) = Null THEN "null" ELSE "cell", <<>>)
    /\ UNCHANGED <<rows, cols, cellWidth, cellHeight, grid>>

CanPlaceAtCall(row, col) ==
    /\ steps < MaxSteps
    /\ steps' = MaxSteps
    /\ last' = Query("canPlaceAt", <<row, col>>, NoCoord,
                     CanPlaceAt(grid, rows, cols, row, col), <<>>)
    /\ UNCHANGED <<rows, cols, cellWidth, cellHeight, grid>>

CanWalkAtCall(row, col) ==
    /\ steps < MaxSteps
    /\ steps' = MaxSteps
    /\ last' = Query("canWalkAt", <<row, col>>, NoCoord,
                     CanWalkAt(grid, rows, cols, row, col), <<>>)
    /\ UNCHANGED <<rows, cols, cellWidth, cellHeight, grid>>

FindPathCall(start, end) ==
    LET p == FindPath(grid, rows, cols, start, end)
    IN  /\ steps < MaxSteps
        /\ steps' = MaxSteps
        /\ last' = Query("findPath", start, end,
                         IF p = Null THEN "null" ELSE "path",
                         IF p = Null THEN <<>> ELSE p[1])
        /\ UNCHANGED <<rows, cols, cellWidth, cellHeight, grid>>

\* the configurations a caller passes to reconfigureGrid: the grid dimensions
\* (each given or left out), or the cell sizes (each given or left out)
DimInputs(max) == {Null} \cup {Some(n) : n \in 0 .. max}
CellSizeInputs == {Null, Some(0), Some(50)}
ConfigInputs ==
    {[rows |-> r, cols |-> c, cellWidth |-> Null, cellHeight |-> Null] :
        r \in DimInputs(MaxGridRows), c \in DimInputs(MaxGridCols)}
    \cup
    {[rows |-> Null, cols |-> Null, cellWidth |-> w, cellHeight |-> h] :
        w \in CellSizeInputs, h \in CellSizeInputs}

\* the README's example on the default 5 x 9 layout: from the spawn column to the goal column
ExampleStart == <<2, 8>>
ExampleEnd == <<2, 0>>
PathInputs == (Coords \X Coords) \cup {<<ExampleStart, ExampleEnd>>}

\* what a call on the grid leaves alone: no modelled call moves the grid's origin,
\* and the grid does not touch the weapons
GridFrame == UNCHANGED <<startPosition, weaponVars, eventVars>>

Next ==
    \/ GridFrame /\ \E rc \in Coords, t \in GridCellType : SetCellType(rc[1], rc[2], t)
    \/ GridFrame /\ \E rc \in Coords, o \in Occupants \cup {NoOccupant} :
                       SetCellOccupied(rc[1], rc[2], o)
    \/ GridFrame /\ \E rc \in Coords : ClearCell(rc[1], rc[2])
    \/ GridFrame /\ \E cfg \in ConfigInputs : ReconfigureGrid(cfg)
    \/ GridFrame /\ \E rc \in Coords : GetCellCall(rc[1], rc[2])
    \/ GridFrame /\ \E rc \in Coords : CanPlaceAtCall(rc[1], rc[2])
    \/ GridFrame /\ \E rc \in Coords : CanWalkAtCall(rc[1], rc[2])
    \/ GridFrame /\ \E se \in PathInputs : FindPathCall(se[1], se[2])

Spec == Init /\ [][Next]_vars

(***************************************************************************)
(* Reference notions the claims are stated with.                           *)
(***************************************************************************)
InBounds(rc) == rc[1] \in 0 .. rows - 1 /\ rc[2] \in 0 .. cols - 1

Adjacent(p, q) ==
    \/ p[1] = q[1] /\ (p[2] = q[2] + 1 \/ q[2] = p[2] + 1)
    \/ p[2] = q[2] /\ (p[1] = q[1] + 1 \/ q[1] = p[1] + 1)

ManhattanDistance(p, q) ==
    (IF p[1] < q[1] THEN q[1] - p[1] ELSE p[1] - q[1])
        + (IF p[2] < q[2] THEN q[2] - p[2] ELSE p[2] - q[2])

Between(x, lo, hi) == (lo <= x /\ x <= hi) \/ (hi <= x /\ x <= lo)

\* every cell of the rectangle spanned by p and q is walkable
DirectRouteClear(p, q) ==
    \A rc \in DOMAIN grid :
        Between(rc[1], p[1], q[1]) /\ Between(rc[2], p[2], q[2]) => grid[rc].walkable

\* number of moves of a shortest 4-connected route from the frontier to target
\* that enters walkable cells only; -1 when there is none
RECURSIVE BreadthFirst(_, _, _, _)
BreadthFirst(frontier, seen, target, d) ==
    IF target \in frontier THEN d
    ELSE IF frontier = {} THEN -1
    ELSE LET next == {rc \in DOMAIN grid \ seen :
                         grid[rc].walkable /\ \E f \in frontier : Adjacent(f, rc)}
         IN  BreadthFirst(next, seen \cup next, target, d + 1)

ShortestMoves(p, q) ==
    IF InBounds(p) /\ InBounds(q) THEN BreadthFirst({p}, {p}, q, 0) ELSE -1

Walkable(t) == t \in {SPAWN, GOAL, PATH, EMPTY, SPECIAL}
Buildable(t) == t \in {PLANT_ZONE, EMPTY, SPECIAL}

\* the grid with every cell unoccupied
WithoutOccupants ==
    [rc \in DOMAIN grid |-> [grid[rc] EXCEPT !.occupied = FALSE, !.occupant = NoOccupant]]

GridState == <<rows, cols, cellWidth, cellHeight, grid>>

(***************************************************************************)
(* The claims.                                                             *)
(***************************************************************************)

\* C1: for distinct in-bounds start and end with no non-walkable cell on the
\* direct route, findPath returns a path of length 1 + |d row| + |d col|.
C1_DirectRouteLength ==
    (/\ last.op = "findPath"
     /\ InBounds(last.a) /\ InBounds(last.b) /\ last.a # last.b
     /\ DirectRouteClear(last.a, last.b))
    => /\ last.ret = "path"
       /\ Len(last.path) = 1 + ManhattanDistance(last.a, last.b)

\* C2: a sequence returned by findPath starts at start, ends at end, has only
\* in-bounds elements, has 4-adjacent consecutive elements, and every element
\* after the first is a walkable cell.
C2_PathWellFormed ==
    (last.op = "findPath" /\ last.ret = "path")
    => /\ Len(last.path) >= 1
       /\ last.path[1] = last.a
       /\ last.path[Len(last.path)] = last.b
       /\ \A i \in 1 .. Len(last.path) : InBounds(last.path[i])
       /\ \A i \in 1 .. Len(last.path) - 1 : Adjacent(last.path[i], last.path[i + 1])
       /\ \A i \in 2 .. Len(last.path) : grid[last.path[i]].walkable

\* a call of findPath has returned a sequence
C2_Witness == last.op = "findPath" /\ last.ret = "path" /\ InBounds(last.a)

\* C3: whenever a 4-connected route through walkable cells exists, findPath
\* returns a path with the fewest possible moves.
C3_Optimal ==
    (last.op = "findPath" /\ ShortestMoves(last.a, last.b) >= 0)
    => /\ last.ret = "path"
       /\ Len(last.path) - 1 = ShortestMoves(last.a, last.b)

\* C4: findPath returns null, and no partial path, whenever start # end and
\* end cannot be reached from start through walkable cells.
C4_UnreachableIsNull ==
    (last.op = "findPath" /\ last.a # last.b /\ ShortestMoves(last.a, last.b) < 0)
    => last.ret = "null" /\ last.path = <<>>

\* the README's call on the default layout, whose plant columns wall the goal off
C4_Witness ==
    /\ last.op = "findPath" /\ last.a = ExampleStart /\ last.b = ExampleEnd
    /\ rows = DefaultRows /\ cols = DefaultCols
    /\ ShortestMoves(last.a, last.b) < 0
    /\ last.ret = "null"

\* C5: the result of findPath is the result on the same grid with every
\* occupant taken away, so two grids that differ in occupancy only give the
\* same result; a returned path may hold an occupied cell canWalkAt refuses.
C5_OccupancyIgnored ==
    last.op = "findPath"
    => LET p == FindPath(WithoutOccupants, rows, cols, last.a, last.b)
       IN  /\ (last.ret = "path") <=> (p # Null)
           /\ p # Null => last.path = p[1]

\* a returned path holds an occupied cell for which canWalkAt is not true
C5_Witness ==
    /\ last.op = "findPath" /\ last.ret = "path"
    /\ \E i \in 1 .. Len(last.path) :
          /\ InBounds(last.path[i])
          /\ grid[last.path[i]].occupied
          /\ CanWalkAt(grid, rows, cols, last.path[i][1], last.path[i][2]) = "false"

\* C6: in every reachable grid each cell's walkable and buildable flags are
\* the fixed function of its cellType.
C6_FlagsDerivedFromType ==
    \A rc \in DOMAIN grid :
        /\ grid[rc].walkable = Walkable(grid[rc].cellType)
        /\ grid[rc].buildable = Buildable(grid[rc].cellType)

\* setCellType has just made a cell an obstacle
C6_Witness ==
    /\ last.op = "setCellType" /\ last.ret = "true"
    /\ \E rc \in DOMAIN grid : grid[rc].cellType = OBSTACLE

\* C7: setCellOccupied with a non-null occupant returns true exactly when
\* canPlaceAt was true just before the call, and a refused call leaves the
\* grid (the cell's occupant included) as it was.
C7_OccupyAgreesWithCanPlace ==
    [][last'.op = "setCellOccupied"
       => \A rc \in Coords, o \in Occupants :
             SetCellOccupied(rc[1], rc[2], o)
             => /\ (last'.ret = "true") <=> (CanPlaceAt(grid, rows, cols, rc[1], rc[2]) = "true")
                /\ last'.ret # "true" => grid' = grid]_vars

\* setCellOccupied has been refused on a grid that holds an occupant
C7_Witness ==
    /\ last.op = "setCellOccupied" /\ last.ret = "false"
    /\ \E rc \in DOMAIN grid : grid[rc].occupied /\ grid[rc].occupant \in Occupants

\* C8: a call with an out-of-bounds coordinate reports it by its result
\* (getCell null, setCellType / setCellOccupied / clearCell false, canPlaceAt
\* and canWalkAt not true, findPath null) and leaves the grid unchanged.
C8_OutOfBounds ==
    [][/\ last'.op = "setCellType"
          => \A rc \in Coords :
                (~InBounds(rc) /\ \E t \in GridCellType : SetCellType(rc[1], rc[2], t))
                => last'.ret = "false" /\ UNCHANGED GridState
       /\ last'.op = "setCellOccupied"
          => \A rc \in Coords :
                (~InBounds(rc) /\ \E o \in Occupants \cup {NoOccupant} :
                                     SetCellOccupied(rc[1], rc[2], o))
                => last'.ret = "false" /\ UNCHANGED GridState
       /\ last'.op = "clearCell"
          => \A rc \in Coords :
                (~InBounds(rc) /\ ClearCell(rc[1], rc[2]))
                => last'.ret = "false" /\ UNCHANGED GridState
       /\ (last'.op = "getCell" /\ ~InBounds(last'.a))
          => last'.ret = "null" /\ UNCHANGED GridState
       /\ (last'.op \in {"canPlaceAt", "canWalkAt"} /\ ~InBounds(last'.a))
          => last'.ret # "true" /\ UNCHANGED GridState
       /\ (last'.op = "findPath" /\ (~InBounds(last'.a) \/ ~InBounds(last'.b)))
          => last'.ret = "null" /\ last'.path = <<>> /\ UNCHANGED GridState]_vars

\* findPath was called with an out-of-bounds start on a grid that has cells
C8_Witness ==
    /\ last.op = "findPath" /\ ~InBounds(last.a) /\ last.ret = "null"
    /\ DOMAIN grid # {}

InvalidConfig(cfg) ==
    \/ cfg.rows # Null /\ cfg.rows[1] <= 0
    \/ cfg.cols # Null /\ cfg.cols[1] <= 0
    \/ cfg.cellWidth # Null /\ cfg.cellWidth[1] <= 0
    \/ cfg.cellHeight # Null /\ cfg.cellHeight[1] <= 0

\* C9: reconfigureGrid with rows, cols, cellWidth or cellHeight <= 0 fails with
\* InvalidConfig and leaves rows, cols, the cell sizes and every cell as they were.
C9_InvalidConfigRejected ==
    [][\A cfg \in ConfigInputs :
          (InvalidConfig(cfg) /\ ReconfigureGrid(cfg))
          => last'.ret = "InvalidConfig" /\ UNCHANGED GridState]_vars

\* C10 as stated: after reconfigureGrid the grid has exactly rows x cols cells,
\* all unoccupied, the rightmost column Spawn, the leftmost column Goal and
\* every column in between PlantZone.
C10_AsStated ==
    last.op = "reconfigureGrid"
    => /\ DOMAIN grid = (0 .. rows - 1) \X (0 .. cols - 1)
       /\ Cardinality(DOMAIN grid) = rows * cols
       /\ \A rc \in DOMAIN grid :
             /\ ~grid[rc].occupied /\ grid[rc].occupant = NoOccupant
             /\ rc[2] = cols - 1 => grid[rc].cellType = SPAWN
             /\ rc[2] = 0 => grid[rc].cellType = GOAL
             /\ (0 < rc[2] /\ rc[2] < cols - 1) => grid[rc].cellType = PLANT_ZONE

\* C10 as amended: the leftmost column is Goal when the grid has at least two
\* columns; the only column of a one-column grid is Spawn.
C10_ColumnLayout ==
    last.op = "reconfigureGrid"
    => /\ DOMAIN grid = (0 .. rows - 1) \X (0 .. cols - 1)
       /\ Cardinality(DOMAIN grid) = rows * cols
       /\ \A rc \in DOMAIN grid :
             /\ ~grid[rc].occupied /\ grid[rc].occupant = NoOccupant
             /\ rc[2] = cols - 1 => grid[rc].cellType = SPAWN
             /\ (rc[2] = 0 /\ cols >= 2) => grid[rc].cellType = GOAL
             /\ (0 < rc[2] /\ rc[2] < cols - 1) => grid[rc].cellType = PLANT_ZONE

\* reconfigureGrid was called after an earlier call and built a one-column grid
C10_Witness ==
    /\ last.op = "reconfigureGrid" /\ steps = 2
    /\ rows >= 1 /\ cols = 1

(***************************************************************************)
(* Coordinate conversion.  World coordinates are kept in half units (a     *)
(* world length w is the integer 2 * w), so that the half cell added by    *)
(* gridToWorldPosition is exact for every integer cell size.               *)
(***************************************************************************)
\* largest number of rows of a grid whose coordinates are converted
MaxCoordRows == 3
\* largest number of columns of a grid whose coordinates are converted
MaxCoordCols == 3

\* Math.floor(a / b) for b # 0
Floor(a, b) == IF b > 0 THEN a \div b ELSE (-a) \div (-b)

\* a plausible slip: the y axis taken to grow downwards, as the rows do
GridToWorldPositionYDown(row, col) ==
    <<2 * startPosition[1] + 2 * col * cellWidth + cellWidth,
      2 * startPosition[2] + 2 * row * cellHeight + cellHeight,
      2 * startPosition[3]>>

\* gridToWorldPosition: the centre of the cell, in half units
GridToWorldPosition(row, col) ==
    <<2 * startPosition[1] + 2 * col * cellWidth + cellWidth,
      2 * startPosition[2] - 2 * row * cellHeight - cellHeight,
      2 * startPosition[3]>>

\* worldToGridPosition of a position in half units.  A division by a cell size
\* of 0 gives Infinity, -Infinity or NaN, which no comparison of
\* isValidCoordinate accepts.
WorldToGridPosition(worldPos) ==
    LET relativeX == worldPos[1] - 2 * startPosition[1]
        relativeY == 2 * startPosition[2] - worldPos[2]
    IN  IF cellWidth = 0 \/ cellHeight = 0
        THEN Null
        ELSE LET col == Floor(relativeX, 2 * cellWidth)
                 row == Floor(relativeY, 2 * cellHeight)
             IN  IF IsValidCoordinate(rows, cols, row, col) THEN Some(<<row, col>>) ELSE Null

CoordInputs == (-1 .. MaxCoordRows) \X (-1 .. MaxCoordCols)

\* the cell sizes and origins a grid is configured with
CoordCellSizes == {0, 50, 75}
StartPositions == {DefaultStartPosition, <<0, 0, 0>>, <<15, -7, 3>>}

\* world positions (half units) a caller converts: the corners and centres of
\* the cells in and around the grid, and the points half a unit off them
WorldInputs ==
    {<<2 * startPosition[1] + i * cellWidth + dx,
       2 * startPosition[2] - j * cellHeight + dy, 0>> :
        i \in -2 .. 2 * cols + 1, j \in -2 .. 2 * rows + 1, dx \in {-1, 0}, dy \in {0, 1}}

Conversion(op, rc, pos, ret, cells) ==
    [op |-> op, a |-> rc, b |-> NoCoord, ret |-> ret, path |-> cells, pos |-> pos]

CoordInit ==
    /\ rows \in 1 .. MaxCoordRows
    /\ cols \in 1 .. MaxCoordCols
    /\ cellWidth \in CoordCellSizes
    /\ cellHeight \in CoordCellSizes
    /\ startPosition \in StartPositions
    /\ grid = InitializeGrid(rows, cols)
    /\ last = Conversion("onLoad", NoCoord, <<0, 0, 0>>, "void", <<>>)
    /\ steps = 0
    /\ OthersUnused

GridToWorldPositionCall(row, col) ==
    /\ steps < MaxSteps
    /\ steps' = MaxSteps
    /\ last' = Conversion("gridToWorldPosition", <<row, col>>,
                          GridToWorldPosition(row, col), "position", <<>>)
    /\ UNCHANGED <<rows, cols, cellWidth, cellHeight, startPosition, grid>>

WorldToGridPositionCall(worldPos) ==
    LET rc == WorldToGridPosition(worldPos)
    IN  /\ steps < MaxSteps
        /\ steps' = MaxSteps
        /\ last' = Conversion("worldToGridPosition", IF rc = Null THEN NoCoord ELSE rc[1],
                              worldPos, IF rc = Null THEN "null" ELSE "coordinate", <<>>)
        /\ UNCHANGED <<rows, cols, cellWidth, cellHeight, startPosition, grid>>

GetNeighborCellsCall(row, col, includeDiagonal) ==
    /\ steps < MaxSteps
    /\ steps' = MaxSteps
    /\ last' = Conversion("getNeighborCells", <<row, col>>, <<0, 0, 0>>,
                          IF includeDiagonal THEN "diagonal" ELSE "orthogonal",
                          GetNeighborCells(grid, rows, cols, row, col, includeDiagonal))
    /\ UNCHANGED <<rows, cols, cellWidth, cellHeight, startPosition, grid>>

CoordNext ==
    \/ UNCHANGED <<weaponVars, eventVars>> /\ \E rc \in CoordInputs : GridToWorldPositionCall(rc[1], rc[2])
    \/ UNCHANGED <<weaponVars, eventVars>> /\ \E p \in WorldInputs : WorldToGridPositionCall(p)
    \/ UNCHANGED <<weaponVars, eventVars>> /\ \E rc \in CoordInputs, d \in BOOLEAN :
                                  GetNeighborCellsCall(rc[1], rc[2], d)

CoordSpec == CoordInit /\ [][CoordNext]_vars

(***************************************************************************)
(* Claims about the coordinate conversion and the neighbour query.         *)
(***************************************************************************)
\* the cell <<row, col>> covers the world position (half units)
CellCovers(rc, worldPos) ==
    /\ 2 * startPosition[1] + 2 * rc[2] * cellWidth <= worldPos[1]
    /\ worldPos[1] < 2 * startPosition[1] + 2 * (rc[2] + 1) * cellWidth
    /\ 2 * startPosition[2] - 2 * rc[1] * cellHeight >= worldPos[2]
    /\ worldPos[2] > 2 * startPosition[2] - 2 * (rc[1] + 1) * cellHeight

AllCells == (0 .. rows - 1) \X (0 .. cols - 1)

\* C11: with positive cell sizes, converting an in-bounds cell to its world
\* position and back gives the cell again; and worldToGridPosition gives the
\* in-bounds cell that covers the position, and null when no in-bounds cell covers it.
C11_RoundTrip ==
    (cellWidth > 0 /\ cellHeight > 0)
    => /\ (last.op = "gridToWorldPosition" /\ InBounds(last.a))
          => WorldToGridPosition(last.pos) = Some(last.a)
       /\ last.op = "worldToGridPosition"
          => /\ last.ret = "null" <=> ~ \E rc \in AllCells : CellCovers(rc, last.pos)
             /\ last.ret # "null" => InBounds(last.a) /\ CellCovers(last.a, last.pos)

\* an in-bounds cell other than the origin cell has been converted, on a grid
\* whose cells have an odd width and whose origin is not the default one
C11_Witness ==
    /\ last.op = "gridToWorldPosition"
    /\ InBounds(last.a) /\ last.a[1] > 0 /\ last.a[2] > 0
    /\ cellWidth = 75 /\ cellHeight = 50
    /\ startPosition # DefaultStartPosition

\* a position outside the grid has been converted, with null as the result
C11_OutsideReached ==
    /\ last.op = "worldToGridPosition" /\ last.ret = "null"
    /\ cellWidth > 0 /\ cellHeight > 0

\* the neighbours of rc that lie in the grid: the four orthogonal ones, or all eight
NeighbourSet(rc, includeDiagonal) ==
    {n \in AllCells :
        /\ n # rc
        /\ Abs(n[1] - rc[1]) <= 1 /\ Abs(n[2] - rc[2]) <= 1
        /\ includeDiagonal \/ Abs(n[1] - rc[1]) + Abs(n[2] - rc[2]) = 1}

IsDiagonalOf(n, rc) == Abs(n[1] - rc[1]) = 1 /\ Abs(n[2] - rc[2]) = 1

ExactlyTheNeighbours(cells, rc, includeDiagonal) ==
    /\ {cells[i] : i \in 1 .. Len(cells)} = NeighbourSet(rc, includeDiagonal)
    /\ Len(cells) = Cardinality(NeighbourSet(rc, includeDiagonal))

RowMajorBefore(p, q) == p[1] < q[1] \/ (p[1] = q[1] /\ p[2] < q[2])

\* C12 as stated: the in-bounds neighbours, each once, and with diagonals the
\* four-direction result comes first and the diagonal neighbours follow it.
C12_AsStated ==
    last.op = "getNeighborCells"
    => /\ ExactlyTheNeighbours(last.path, last.a, last.ret = "diagonal")
       /\ last.ret = "diagonal"
          => LET four == GetNeighborCells(grid, rows, cols, last.a[1], last.a[2], FALSE)
             IN  /\ Len(last.path) >= Len(four)
                 /\ SubSeq(last.path, 1, Len(four)) = four
                 /\ \A i \in Len(four) + 1 .. Len(last.path) :
                        IsDiagonalOf(last.path[i], last.a)

\* C12 (amended): the in-bounds neighbours, each once, in row-major order of
\* their position (upper row first, left to right within a row) whether or not
\* diagonals are asked for: the diagonal neighbours are interleaved with the
\* orthogonal ones, which keep the relative order of the four-direction result.
C12_NeighborOrder ==
    last.op = "getNeighborCells"
    => /\ ExactlyTheNeighbours(last.path, last.a, last.ret = "diagonal")
       /\ \A i, j \in 1 .. Len(last.path) :
              i < j => RowMajorBefore(last.path[i], last.path[j])
       /\ last.ret = "diagonal"
          => SelectSeq(last.path, LAMBDA n : ~IsDiagonalOf(n, last.a))
                = GetNeighborCells(grid, rows, cols, last.a[1], last.a[2], FALSE)

\* the eight neighbours of an inner cell have been asked for
C12_Witness ==
    /\ last.op = "getNeighborCells" /\ last.ret = "diagonal"
    /\ Len(last.path) = 8

(***************************************************************************)
(* Bullet nodes (core/Bullet.ts).  A node is named <<weapon type, k>>: the *)
(* k-th node of that type's pool.  `nodes` maps the names to records of    *)
(* the node's fields and of the fields of its Bullet component.            *)
(***************************************************************************)
\* number of nodes initializeBulletPools creates for a weapon type (30 in the source)
PoolSize == 2

OwnerTag == "Player"
TargetTags == {"Enemy"}

\* a node instantiated from a bullet prefab: the Bullet component's field defaults.
\* `damaged` is history: the targets whose takeDamage the bullet has called
\* since its node was made active, in the order of the calls.
InstantiatedBullet ==
    [active |-> TRUE, bulletData |-> Null, weaponType |-> BULLET_TYPE_NORMAL,
     lifetime |-> 30, ownerTag |-> OwnerTag, penetration |-> 0, explosionRadius |-> 0,
     isLaser |-> FALSE, targetTags |-> TargetTags, hasHit |-> FALSE, hitCount |-> 0,
     hitTargets |-> {}, damaged |-> <<>>]

\* node.active = value: a change of the flag runs onEnable or onDisable, and
\* both reset the hit bookkeeping
SetActive(node, value) ==
    IF node.active = value
    THEN node
    ELSE [node EXCEPT !.active = value, !.hasHit = FALSE, !.hitCount = 0, !.hitTargets = {},
                      !.damaged = <<>>]

UpdateBulletPropertiesByWeaponType(node) ==
    CASE node.weaponType = BULLET_TYPE_NORMAL ->
           [node EXCEPT !.penetration = 0, !.explosionRadius = 0, !.isLaser = FALSE]
      [] node.weaponType = BULLET_TYPE_CANNON ->
           [node EXCEPT !.penetration = 0, !.explosionRadius = 50, !.isLaser = FALSE]
      [] node.weaponType = BULLET_TYPE_MULTIPLE ->
           [node EXCEPT !.penetration = 1, !.explosionRadius = 0, !.isLaser = FALSE]
      [] node.weaponType = BULLET_TYPE_LASER ->
           [node EXCEPT !.penetration = 3, !.explosionRadius = 0, !.isLaser = TRUE]
      [] OTHER -> node

\* setWeaponType up to its first await (the sprite is loaded after it)
SetWeaponType(node, weaponType) ==
    IF node.weaponType # weaponType
    THEN UpdateBulletPropertiesByWeaponType([node EXCEPT !.weaponType = weaponType])
    ELSE node

SetBulletData(node, lifetime, ownerTag, weaponType) ==
    SetWeaponType([node EXCEPT !.lifetime = lifetime, !.ownerTag = ownerTag], weaponType)

(***************************************************************************)
(* The weapons system (core/WeaponsSystem.ts).  The operations are written *)
(* on a record `sys` of the fields they change, so that update can run     *)
(* fire after its own changes.                                             *)
(***************************************************************************)
Sys ==
    [currentWeaponType |-> currentWeaponType, currentEnergy |-> currentEnergy,
     weaponConfigs |-> weaponConfigs,
     lastFireTime |-> lastFireTime, cooldownEndTime |-> cooldownEndTime,
     bulletPools |-> bulletPools, activeBullets |-> activeBullets, nodes |-> nodes,
     emitted |-> <<>>]

GetCurrentWeaponConfig(sys) ==
    IF sys.weaponConfigs[sys.currentWeaponType] # Null
    THEN sys.weaponConfigs[sys.currentWeaponType][1]
    ELSE DEFAULT_WEAPON_CONFIGS[BULLET_TYPE_NORMAL]

\* a plausible slip: the energy has to be more than the cost
CanFireWithEnergyToSpare(sys, now) ==
    LET config == GetCurrentWeaponConfig(sys)
    IN  /\ ~(now < sys.cooldownEndTime)
        /\ ~((now - sys.lastFireTime) * config.fireRate < 100)
        /\ ~(sys.currentEnergy <= config.energyCost)
        /\ sys.currentWeaponType \in bulletPrefabs

\* a plausible slip: the energy is not looked at
CanFireWithoutEnergyCheck(sys, now) ==
    LET config == GetCurrentWeaponConfig(sys)
    IN  /\ ~(now < sys.cooldownEndTime)
        /\ ~((now - sys.lastFireTime) * config.fireRate < 100)
        /\ sys.currentWeaponType \in bulletPrefabs

\* canFire at time now.  The fire interval 1 / fireRate seconds is compared as
\* (now - lastFireTime) * fireRate < 1, in tenths of a second and shots per ten seconds.
CanFire(sys, now) ==
    LET config == GetCurrentWeaponConfig(sys)
    IN  /\ ~(now < sys.cooldownEndTime)
        /\ ~((now - sys.lastFireTime) * config.fireRate < 100)
        /\ ~(sys.currentEnergy < config.energyCost)
        /\ sys.currentWeaponType \in bulletPrefabs

RECURSIVE FirstInactive(_, _, _)
FirstInactive(sys, pool, i) ==
    IF i > Len(pool) THEN Null
    ELSE IF ~sys.nodes[pool[i]].active THEN Some(pool[i])
    ELSE FirstInactive(sys, pool, i + 1)

\* a plausible slip: the first node of the pool is taken, in flight or not
GetBulletFromPoolTakesFirst(sys, weaponType) ==
    IF sys.bulletPools[weaponType] = Null
    THEN [sys |-> sys, bullet |-> Null]
    ELSE [sys |-> sys, bullet |-> Some(sys.bulletPools[weaponType][1][1])]

\* getBulletFromPool: [sys, bullet], the bullet being null or a node
GetBulletFromPool(sys, weaponType) ==
    IF sys.bulletPools[weaponType] = Null
    THEN [sys |-> sys, bullet |-> Null]
    ELSE LET pool == sys.bulletPools[weaponType][1]
             free == FirstInactive(sys, pool, 1)
             newBullet == <<weaponType, Len(pool) + 1>>
         IN  IF free # Null THEN [sys |-> sys, bullet |-> free]
             ELSE IF weaponType \in bulletPrefabs
             THEN [sys |-> [sys EXCEPT
                               !.bulletPools[weaponType] = Some(Append(pool, newBullet)),
                               !.nodes = [n \in DOMAIN sys.nodes \cup {newBullet} |->
                                             IF n = newBullet THEN InstantiatedBullet
                                             ELSE sys.nodes[n]]],
                   bullet |-> Some(newBullet)]
             ELSE [sys |-> sys, bullet |-> Null]

\* configureBullet: the direction is the aim (towards the target, or UNIT_X)
\* turned by angleOffset degrees; the offset is kept as a fraction <<num, den>>.
\* The bullet is put at the fire point: `travelled` is the time for which it
\* has been moved from there, which with the direction and the speed gives
\* its position.
ConfigureBullet(sys, bullet, config, targetPosition, angleOffset, now) ==
    [sys EXCEPT !.nodes[bullet] =
        [SetBulletData(@, config.bulletLifetime, OwnerTag, config.type) EXCEPT
            !.bulletData = Some([aim |-> targetPosition, angleOffset |-> angleOffset,
                                 speed |-> config.bulletSpeed,
                                 lifetime |-> config.bulletLifetime,
                                 startTime |-> now, weaponType |-> config.type,
                                 travelled |-> 0])]]

ActivateBullet(sys, bullet) ==
    [sys EXCEPT !.nodes[bullet] = SetActive(@, TRUE),
                !.activeBullets = @ \cup {bullet}]

FireSingleBullet(sys, config, targetPosition, now) ==
    LET got == GetBulletFromPool(sys, config.type)
    IN  IF got.bullet = Null THEN got.sys
        ELSE ActivateBullet(
                 ConfigureBullet(got.sys, got.bullet[1], config, targetPosition, <<0, 1>>, now),
                 got.bullet[1])

FireCannonBullet(sys, config, targetPosition, now) ==
    LET got == GetBulletFromPool(sys, config.type)
    IN  IF got.bullet = Null THEN got.sys
        ELSE LET b == got.bullet[1]
                 configured == ConfigureBullet(got.sys, b, config, targetPosition, <<0, 1>>, now)
             IN  ActivateBullet(
                     [configured EXCEPT !.nodes[b].explosionRadius = config.explosionRadius,
                                        !.nodes[b].penetration = config.penetration],
                     b)

\* startAngle + angleStep * i, with angleStep = spreadAngle / (bulletCount - 1) and
\* startAngle = -spreadAngle / 2, as a fraction <<numerator, denominator>> of degrees
SpreadAngleOf(config, i) ==
    <<2 * config.spreadAngle * i - config.spreadAngle * (config.bulletCount - 1),
      2 * (config.bulletCount - 1)>>

RECURSIVE FireMultipleBulletsFrom(_, _, _, _, _)
FireMultipleBulletsFrom(sys, config, targetPosition, now, i) ==
    IF ~(i < config.bulletCount) THEN sys
    ELSE LET got == GetBulletFromPool(sys, config.type)
             next == IF got.bullet = Null THEN got.sys
                     ELSE ActivateBullet(
                              ConfigureBullet(got.sys, got.bullet[1], config, targetPosition,
                                              SpreadAngleOf(config, i), now),
                              got.bullet[1])
         IN  FireMultipleBulletsFrom(next, config, targetPosition, now, i + 1)

FireMultipleBullets(sys, config, targetPosition, now) ==
    FireMultipleBulletsFrom(sys, config, targetPosition, now, 0)

FireLaserBullet(sys, config, targetPosition, now) ==
    LET got == GetBulletFromPool(sys, config.type)
    IN  IF got.bullet = Null THEN got.sys
        ELSE LET b == got.bullet[1]
                 configured == ConfigureBullet(got.sys, b, config, targetPosition, <<0, 1>>, now)
             IN  ActivateBullet(
                     [configured EXCEPT !.nodes[b].penetration = config.penetration,
                                        !.nodes[b].isLaser = TRUE],
                     b)

ExecuteFirePattern(sys, config, targetPosition, now) ==
    CASE config.type = BULLET_TYPE_NORMAL -> FireSingleBullet(sys, config, targetPosition, now)
      [] config.type = BULLET_TYPE_CANNON -> FireCannonBullet(sys, config, targetPosition, now)
      [] config.type = BULLET_TYPE_MULTIPLE -> FireMultipleBullets(sys, config, targetPosition, now)
      [] config.type = BULLET_TYPE_LASER -> FireLaserBullet(sys, config, targetPosition, now)
      [] OTHER -> sys

Emit(sys, event) == [sys EXCEPT !.emitted = Append(@, event)]

\* a plausible slip: a rejected attempt is remembered as the last fire
FireOnRemembersAttempt(sys, targetPosition, now) ==
    IF ~CanFire(sys, now)
    THEN [ret |-> FALSE, sys |-> [sys EXCEPT !.lastFireTime = now]]
    ELSE LET weaponConfig == GetCurrentWeaponConfig(sys)
             paid == [sys EXCEPT !.currentEnergy = @ - weaponConfig.energyCost,
                                 !.cooldownEndTime = now + weaponConfig.cooldown,
                                 !.lastFireTime = now]
             fired == ExecuteFirePattern(paid, weaponConfig, targetPosition, now)
         IN  [ret |-> TRUE,
              sys |-> Emit(fired, [name |-> "weapon-fire",
                                   weaponType |-> fired.currentWeaponType,
                                   energyRemaining |-> fired.currentEnergy])]

\* a plausible slip: the notification is sent before the energy is deducted
FireOnEmitsFirst(sys, targetPosition, now) ==
    IF ~CanFire(sys, now)
    THEN [ret |-> FALSE, sys |-> sys]
    ELSE LET weaponConfig == GetCurrentWeaponConfig(sys)
             told == Emit(sys, [name |-> "weapon-fire",
                                weaponType |-> sys.currentWeaponType,
                                energyRemaining |-> sys.currentEnergy])
             paid == [told EXCEPT !.currentEnergy = @ - weaponConfig.energyCost,
                                  !.cooldownEndTime = now + weaponConfig.cooldown,
                                  !.lastFireTime = now]
         IN  [ret |-> TRUE,
              sys |-> ExecuteFirePattern(paid, weaponConfig, targetPosition, now)]

\* fire at time now: [ret, sys]
FireOn(sys, targetPosition, now) ==
    IF ~CanFire(sys, now)
    THEN [ret |-> FALSE, sys |-> sys]
    ELSE LET weaponConfig == GetCurrentWeaponConfig(sys)
             paid == [sys EXCEPT !.currentEnergy = @ - weaponConfig.energyCost,
                                 !.cooldownEndTime = now + weaponConfig.cooldown,
                                 !.lastFireTime = now]
             fired == ExecuteFirePattern(paid, weaponConfig, targetPosition, now)
         IN  [ret |-> TRUE,
              sys |-> Emit(fired, [name |-> "weapon-fire",
                                   weaponType |-> fired.currentWeaponType,
                                   energyRemaining |-> fired.currentEnergy])]

Min(a, b) == IF a < b THEN a ELSE b

\* a plausible slip: the regenerated energy is not capped
UpdateEnergyRegenUncapped(sys, deltaTime) ==
    IF sys.currentEnergy < maxEnergy
    THEN [sys EXCEPT !.currentEnergy = @ + energyRegenRate * deltaTime]
    ELSE sys

UpdateEnergyRegen(sys, deltaTime) ==
    IF sys.currentEnergy < maxEnergy
    THEN [sys EXCEPT !.currentEnergy = Min(maxEnergy, @ + energyRegenRate * deltaTime)]
    ELSE sys

\* a plausible slip: a bullet is recycled at the very end of its lifetime
UpdateBulletsAtLifetime(sys, deltaTime, now) ==
    LET bulletsToRemove ==
            {b \in sys.activeBullets :
                /\ sys.nodes[b].bulletData # Null
                /\ now - sys.nodes[b].bulletData[1].startTime
                      >= sys.nodes[b].bulletData[1].lifetime}
    IN  [sys EXCEPT !.nodes = [n \in DOMAIN @ |->
                                  IF n \in bulletsToRemove
                                  THEN [SetActive(@[n], FALSE) EXCEPT !.bulletData = Null]
                                  ELSE IF n \in sys.activeBullets /\ @[n].bulletData # Null
                                  THEN [@[n] EXCEPT !.bulletData[1].travelled = @ + deltaTime]
                                  ELSE @[n]],
                    !.activeBullets = @ \ bulletsToRemove]

\* updateBullets: the bullets of the active set whose lifetime is over are
\* recycled, the others are moved on by speed * deltaTime along their direction
UpdateBullets(sys, deltaTime, now) ==
    LET bulletsToRemove ==
            {b \in sys.activeBullets :
                /\ sys.nodes[b].bulletData # Null
                /\ now - sys.nodes[b].bulletData[1].startTime
                      > sys.nodes[b].bulletData[1].lifetime}
    IN  [sys EXCEPT !.nodes = [n \in DOMAIN @ |->
                                  IF n \in bulletsToRemove
                                  THEN [SetActive(@[n], FALSE) EXCEPT !.bulletData = Null]
                                  ELSE IF n \in sys.activeBullets /\ @[n].bulletData # Null
                                  THEN [@[n] EXCEPT !.bulletData[1].travelled = @ + deltaTime]
                                  ELSE @[n]],
                    !.activeBullets = @ \ bulletsToRemove]

\* a plausible slip: the automatic fire is made first, before the energy is
\* regenerated and the bullets are swept and moved
UpdateOnFiresFirst(sys, deltaTime, now) ==
    IF autoFire /\ CanFire(sys, now)
    THEN [fired |-> TRUE,
          sys |-> UpdateBullets(UpdateEnergyRegen(FireOn(sys, Null, now).sys, deltaTime),
                                deltaTime, now)]
    ELSE [fired |-> FALSE,
          sys |-> UpdateBullets(UpdateEnergyRegen(sys, deltaTime), deltaTime, now)]

\* update: [fired, sys], fired telling whether the automatic fire was made
UpdateOn(sys, deltaTime, now) ==
    LET updated == UpdateBullets(UpdateEnergyRegen(sys, deltaTime), deltaTime, now)
    IN  IF autoFire /\ CanFire(updated, now)
        THEN [fired |-> TRUE, sys |-> FireOn(updated, Null, now).sys]
        ELSE [fired |-> FALSE, sys |-> updated]

\* start: the configurations are loaded, then a pool of inactive nodes is made
\* for every prefab.  Without a fire point the first addChild throws a
\* TypeError, which ends start before any pool is stored.
StartOn(sys) ==
    LET loaded == [sys EXCEPT !.weaponConfigs =
                                 [t \in WeaponType |-> Some(DEFAULT_WEAPON_CONFIGS[t])]]
        pooled == {<<t, k>> : t \in bulletPrefabs, k \in 1 .. PoolSize}
    IN  IF ~firePoint
        THEN loaded
        ELSE [loaded EXCEPT
                 !.bulletPools = [t \in WeaponType |->
                                     IF t \in bulletPrefabs
                                     THEN Some([k \in 1 .. PoolSize |-> <<t, k>>])
                                     ELSE Null],
                 !.nodes = [n \in pooled |-> SetActive(InstantiatedBullet, FALSE)]]

(***************************************************************************)
(* The calls on the weapons and the bullets.                               *)
(***************************************************************************)
\* number of calls made on the weapons and the bullets in one behaviour
MaxCalls == 4

Store(sys) ==
    /\ currentWeaponType' = sys.currentWeaponType
    /\ currentEnergy' = sys.currentEnergy
    /\ weaponConfigs' = sys.weaponConfigs
    /\ lastFireTime' = sys.lastFireTime
    /\ cooldownEndTime' = sys.cooldownEndTime
    /\ bulletPools' = sys.bulletPools
    /\ activeBullets' = sys.activeBullets
    /\ nodes' = sys.nodes
    /\ emitted' = sys.emitted

BoolText(b) == IF b THEN "true" ELSE "false"

\* a frame of the engine: the clock moves on by deltaTime, start runs before
\* the component's first update, then update(deltaTime) runs
Frame(deltaTime) ==
    LET now == totalTime + deltaTime
        u   == UpdateOn(IF started THEN Sys ELSE StartOn(Sys), deltaTime, now)
    IN  /\ totalTime' = now
        /\ started' = TRUE
        /\ Store(u.sys)
        /\ outcome' = [op |-> "update", ret |-> "void", fired |-> u.fired,
                        deltaTime |-> deltaTime]
        /\ firedAt' = IF u.fired
                      THEN [firedAt EXCEPT ![u.sys.currentWeaponType] = Some(now)]
                      ELSE firedAt
        /\ UNCHANGED <<firePoint, bulletPrefabs, autoFire, maxEnergy, energyRegenRate>>

Fire(targetPosition) ==
    LET r == FireOn(Sys, targetPosition, totalTime)
    IN  /\ Store(r.sys)
        /\ outcome' = [op |-> "fire", ret |-> BoolText(r.ret), fired |-> r.ret]
        /\ firedAt' = IF r.ret
                      THEN [firedAt EXCEPT ![currentWeaponType] = Some(totalTime)]
                      ELSE firedAt
        /\ UNCHANGED <<started, totalTime, firePoint, bulletPrefabs, autoFire, maxEnergy,
                       energyRegenRate>>

\* a plausible slip: the new weapon starts without the old weapon's cooldown
SwitchWeaponOnResetsCooldown(sys, weaponType) ==
    IF weaponType = sys.currentWeaponType THEN [ret |-> FALSE, sys |-> sys]
    ELSE IF weaponType \notin bulletPrefabs THEN [ret |-> FALSE, sys |-> sys]
    ELSE [ret |-> TRUE,
          sys |-> Emit([sys EXCEPT !.currentWeaponType = weaponType, !.cooldownEndTime = 0],
                       [name |-> "weapon-switch", oldWeapon |-> sys.currentWeaponType,
                        newWeapon |-> weaponType])]

\* switchWeapon: [ret, sys]
SwitchWeaponOn(sys, weaponType) ==
    IF weaponType = sys.currentWeaponType THEN [ret |-> FALSE, sys |-> sys]
    ELSE IF weaponType \notin bulletPrefabs THEN [ret |-> FALSE, sys |-> sys]
    ELSE [ret |-> TRUE,
          sys |-> Emit([sys EXCEPT !.currentWeaponType = weaponType],
                       [name |-> "weapon-switch", oldWeapon |-> sys.currentWeaponType,
                        newWeapon |-> weaponType])]

SwitchWeapon(weaponType) ==
    LET r == SwitchWeaponOn(Sys, weaponType)
    IN  /\ Store(r.sys)
        /\ outcome' = [op |-> "switchWeapon", ret |-> BoolText(r.ret), fired |-> FALSE]
        /\ UNCHANGED <<started, totalTime, firePoint, bulletPrefabs, autoFire, maxEnergy,
                       energyRegenRate, firedAt>>

\* the nodes a bullet may touch, and their tags
Targets == {"enemy1", "enemy2", "player"}
GetNodeTag(target) ==
    CASE target = "player" -> "Player"
      [] target = "neutral" -> "Neutral"
      [] OTHER -> "Enemy"

\* a plausible slip: the owner's tag is not excluded
IsValidTargetFriendlyFire(node, targetTag) ==
    targetTag \in node.targetTags \/ node.targetTags = {}

IsValidTarget(node, targetTag) ==
    IF targetTag = node.ownerTag THEN FALSE
    ELSE targetTag \in node.targetTags \/ node.targetTags = {}

\* a plausible slip: the budget compared with > instead of >=
ShouldDestroyAfterHitOffByOne(node) ==
    IF node.isLaser /\ node.penetration > 0 THEN node.hitCount > node.penetration
    ELSE IF node.penetration <= 0 THEN TRUE
    ELSE node.hitCount > node.penetration

ShouldDestroyAfterHit(node) ==
    IF node.isLaser /\ node.penetration > 0 THEN node.hitCount >= node.penetration
    ELSE IF node.penetration <= 0 THEN TRUE
    ELSE node.hitCount >= node.penetration

\* hitTarget: [node, events]
HitTarget(node, bullet, target) ==
    LET hit == [node EXCEPT !.hitTargets = @ \cup {target}, !.hitCount = @ + 1,
                            !.damaged = Append(@, target)]
        explosion == IF hit.weaponType = BULLET_TYPE_CANNON /\ hit.explosionRadius > 0
                     THEN << [name |-> "bullet-explosion", bullet |-> bullet] >>
                     ELSE <<>>
        hitEvent == << [name |-> "bullet-hit", bullet |-> bullet, target |-> target,
                        hitCount |-> hit.hitCount] >>
    IN  IF ShouldDestroyAfterHit(hit)
        THEN [node |-> SetActive(hit, FALSE),
              events |-> explosion \o hitEvent \o
                         << [name |-> "bullet-destroy", bullet |-> bullet,
                             hitCount |-> hit.hitCount] >>]
        ELSE [node |-> [hit EXCEPT !.hasHit = TRUE], events |-> explosion \o hitEvent]

\* a plausible slip: the set of the targets already hit is not looked at
OnBeginContactOnIgnoresHitSet(node, bullet, target) ==
    IF node.hasHit /\ node.penetration <= 0 THEN [node |-> node, events |-> <<>>]
    ELSE IF IsValidTarget(node, GetNodeTag(target)) THEN HitTarget(node, bullet, target)
    ELSE [node |-> node, events |-> <<>>]

\* onBeginContact: [node, events]
OnBeginContactOn(node, bullet, target) ==
    IF node.hasHit /\ node.penetration <= 0 THEN [node |-> node, events |-> <<>>]
    ELSE IF target \in node.hitTargets THEN [node |-> node, events |-> <<>>]
    ELSE IF IsValidTarget(node, GetNodeTag(target)) THEN HitTarget(node, bullet, target)
    ELSE [node |-> node, events |-> <<>>]

\* the physics engine reports a contact of an active bullet with a target
OnBeginContact(bullet, target) ==
    LET r == OnBeginContactOn(nodes[bullet], bullet, target)
    IN  /\ nodes[bullet].active
        /\ nodes' = [nodes EXCEPT ![bullet] = r.node]
        /\ emitted' = r.events
        /\ outcome' = [op |-> "onBeginContact", ret |-> "void", fired |-> FALSE,
                        bullet |-> bullet, target |-> target]
        /\ UNCHANGED <<started, firePoint, currentWeaponType, bulletPrefabs, autoFire,
                       currentEnergy, maxEnergy, energyRegenRate, weaponConfigs, bulletPools,
                       activeBullets, lastFireTime, cooldownEndTime, totalTime, firedAt>>

DeltaTimes == {0, 5, 20}
TargetPositions == {Null, Some(<<100, 0, 0>>)}
PrefabInputs == {WeaponType, {BULLET_TYPE_NORMAL, BULLET_TYPE_MULTIPLE}, {}}
\* <<currentEnergy, maxEnergy>>: the defaults, and three units of four
EnergyInputs == {<<DefaultEnergy, DefaultEnergy>>, <<30, 40>>}

WeaponInit ==
    /\ GridLoaded
    /\ EventManagerConstructed
    /\ \E prefabs \in PrefabInputs, point \in BOOLEAN, weaponType \in WeaponType,
          auto \in BOOLEAN, e \in EnergyInputs :
           WeaponsConstructed(prefabs, point, weaponType, auto, e[1], e[2],
                              DefaultEnergyRegenRate)

\* a call on the weapons is counted, and leaves the grid alone
WeaponFrame ==
    steps < MaxCalls /\ steps' = steps + 1 /\ UNCHANGED <<gridFields, eventVars>>

WeaponNext ==
    \/ WeaponFrame /\ \E deltaTime \in DeltaTimes : Frame(deltaTime)
    \/ WeaponFrame /\ \E targetPosition \in TargetPositions : Fire(targetPosition)
    \/ WeaponFrame /\ \E weaponType \in WeaponType : SwitchWeapon(weaponType)
    \/ WeaponFrame /\ \E bullet \in DOMAIN nodes, target \in Targets :
                         OnBeginContact(bullet, target)

WeaponSpec == WeaponInit /\ [][WeaponNext]_vars

(***************************************************************************)
(* A bullet of the scene and its contacts.  The tags and the penetration   *)
(* of a Bullet are properties that the scene sets; the bullet is a node of *)
(* the scene that the weapons system, left unused, does not know.          *)
(***************************************************************************)
SceneBullet == <<BULLET_TYPE_NORMAL, 1>>
SceneTargets == Targets \cup {"neutral"}
OwnerTagInputs == {"Player", "Enemy"}
TargetTagsInputs == {TargetTags, {}, {"Enemy", "Player"}}
PenetrationInputs == {0, 2}

BulletInit ==
    /\ GridLoaded
    /\ EventManagerConstructed
    /\ started = FALSE
    /\ firePoint = FALSE
    /\ currentWeaponType = BULLET_TYPE_NORMAL
    /\ bulletPrefabs = {}
    /\ autoFire = FALSE
    /\ currentEnergy = DefaultEnergy
    /\ maxEnergy = DefaultEnergy
    /\ energyRegenRate = DefaultEnergyRegenRate
    /\ weaponConfigs = NoEntries
    /\ bulletPools = NoEntries
    /\ activeBullets = {}
    /\ lastFireTime = 0
    /\ cooldownEndTime = 0
    /\ totalTime = 0
    /\ \E owner \in OwnerTagInputs, tags \in TargetTagsInputs, p \in PenetrationInputs :
           nodes = [n \in {SceneBullet} |->
                       [InstantiatedBullet EXCEPT !.ownerTag = owner, !.targetTags = tags,
                                                  !.penetration = p]]
    /\ emitted = <<>>
    /\ outcome = [op |-> "constructor", ret |-> "void", fired |-> FALSE]
    /\ firedAt = NoEntries

BulletNext ==
    WeaponFrame /\ \E bullet \in DOMAIN nodes, target \in SceneTargets :
                      OnBeginContact(bullet, target)

BulletSpec == BulletInit /\ [][BulletNext]_vars

(***************************************************************************)
(* The weapons under frames that never end.  The code looks at differences *)
(* of times only (lines 323, 329 and 385), so the clock is read relative   *)
(* to the last frame: after a frame every time is moved back so that the   *)
(* clock shows Epoch, and a time more than Epoch in the past, older than   *)
(* every lifetime, cooldown and fire interval, is kept as 0.  Of the calls *)
(* only the frames are counted, modulo 2.                                  *)
(***************************************************************************)
\* what the clock shows after a frame; more than the longest lifetime (4 seconds)
Epoch == 50

Rebased(time, now) == IF time - (now - Epoch) < 0 THEN 0 ELSE time - (now - Epoch)

Rebase(sys, now) ==
    [sys EXCEPT
        !.lastFireTime = Rebased(@, now),
        !.cooldownEndTime = Rebased(@, now),
        !.nodes = [n \in DOMAIN @ |->
                      IF @[n].bulletData = Null THEN @[n]
                      ELSE [@[n] EXCEPT !.bulletData =
                               Some([@[1] EXCEPT !.startTime = Rebased(@, now)])]]]

\* a frame, as Frame, seen on the clock relative to it
Tick(deltaTime) ==
    LET now == totalTime + deltaTime
        u   == UpdateOn(IF started THEN Sys ELSE StartOn(Sys), deltaTime, now)
    IN  /\ totalTime' = Epoch
        /\ started' = TRUE
        /\ Store(Rebase(u.sys, now))
        /\ outcome' = [op |-> "update", ret |-> "void", fired |-> u.fired,
                        deltaTime |-> deltaTime]
        /\ UNCHANGED <<firePoint, bulletPrefabs, autoFire, maxEnergy, energyRegenRate,
                       firedAt>>

\* frames of one second and of three seconds
TickTimes == {10, 30}
\* <<currentEnergy, maxEnergy>>: five units, the cost of the dearest weapon, and
\* three of four
TickEnergyInputs == {<<50, 50>>, <<30, 40>>}
\* the regeneration per second: the default, and none
TickRegenInputs == {DefaultEnergyRegenRate, 0}

TickPrefabInputs == {{BULLET_TYPE_NORMAL, BULLET_TYPE_CANNON}, {BULLET_TYPE_LASER}}

TickInit ==
    /\ GridLoaded
    /\ EventManagerConstructed
    /\ \E prefabs \in TickPrefabInputs, point \in BOOLEAN, weaponType \in WeaponType,
          auto \in BOOLEAN, e \in TickEnergyInputs, regen \in TickRegenInputs :
           WeaponsConstructed(prefabs, point, weaponType, auto, e[1], e[2], regen)

\* one more frame has been counted
FrameCounted == steps' = 1 - steps

Ticks ==
    /\ UNCHANGED <<gridFields, eventVars>>
    /\ FrameCounted
    /\ \E deltaTime \in TickTimes : Tick(deltaTime)

TickNext ==
    \/ Ticks
    \/ UNCHANGED <<gridVars, eventVars>> /\ \E weaponType \in WeaponType :
                                              SwitchWeapon(weaponType)

\* update keeps being called, with the time advancing: a frame can always
\* come and only a frame changes the count, so this is weak fairness of Ticks
TickSpec == TickInit /\ [][TickNext]_vars /\ WF_steps(FrameCounted)

(***************************************************************************)
(* Claims about the weapons.                                               *)
(***************************************************************************)
\* the configuration of the weapon in use
CurrentConfig == DEFAULT_WEAPON_CONFIGS[currentWeaponType]

\* the gates of a fire, at the director's time: the cooldown is over, the fire
\* interval 1 / fireRate has passed, the energy pays the cost, a prefab exists
CooldownOver == totalTime >= cooldownEndTime
IntervalPassed == (totalTime - lastFireTime) * CurrentConfig.fireRate >= 100
EnergySuffices == currentEnergy >= CurrentConfig.energyCost
TemplateExists == currentWeaponType \in bulletPrefabs

WeaponFireEvents(events) == SelectSeq(events, LAMBDA e : e.name = "weapon-fire")

\* C13: the energy stays between 0 and maxEnergy, whatever update, fire and
\* switchWeapon calls are made.
C13_EnergyInRange == 0 <= currentEnergy /\ currentEnergy <= maxEnergy

\* after fires, an update has regenerated the energy up to maxEnergy
C13_Witness ==
    /\ outcome.op = "update" /\ ~outcome.fired
    /\ lastFireTime > 0
    /\ currentEnergy = maxEnergy

\* C14: a fire that returns false changes nothing (energy, cooldown end, last
\* fire time, weapon type, active bullets, pools, bullets) and emits nothing;
\* and fire returns false when the energy is below the cost, during the
\* cooldown, and when the weapon type has no prefab.
C14_RejectedFireIsNoOp ==
    [][outcome'.op = "fire"
       => /\ outcome'.ret = "false"
             => /\ UNCHANGED <<currentEnergy, cooldownEndTime, lastFireTime,
                               currentWeaponType, activeBullets, bulletPools, nodes,
                               weaponConfigs>>
                /\ emitted' = <<>>
          /\ (~EnergySuffices \/ ~CooldownOver \/ ~TemplateExists)
             => outcome'.ret = "false"]_vars

\* a fire has been rejected for the energy alone
C14_Witness ==
    /\ outcome.op = "fire" /\ outcome.ret = "false"
    /\ CooldownOver /\ IntervalPassed /\ TemplateExists /\ ~EnergySuffices

\* C15: fire returns true exactly when the four gates hold; and a weapon's
\* successful fire is never closer to its previous one than its cooldown and
\* its fire interval.
C15_FireIffGates ==
    [][/\ outcome'.op = "fire"
          => (outcome'.ret = "true"
                <=> (CooldownOver /\ IntervalPassed /\ EnergySuffices /\ TemplateExists))
       /\ (outcome'.fired /\ firedAt[currentWeaponType'] # Null)
          => LET since == totalTime' - firedAt[currentWeaponType'][1]
                 config == DEFAULT_WEAPON_CONFIGS[currentWeaponType']
             IN  since >= config.cooldown /\ since * config.fireRate >= 100]_vars

\* a weapon has fired for the second time
C15_Witness ==
    /\ outcome.op = "fire" /\ outcome.ret = "true"
    /\ \E t \in WeaponType :
          /\ firedAt[t] = Some(totalTime)
          /\ \E n \in activeBullets :
                /\ nodes[n].bulletData # Null
                /\ nodes[n].bulletData[1].weaponType = t
                /\ nodes[n].bulletData[1].startTime < totalTime

\* C16: a fire that returns true deducts the weapon's energy cost, sets the
\* cooldown end to now + cooldown and the last fire time to now, keeps the
\* weapon type, and emits one weapon-fire notification that carries the
\* energy left after the deduction.
C16_SuccessfulFire ==
    [][(outcome'.op = "fire" /\ outcome'.ret = "true")
       => /\ currentEnergy' = currentEnergy - CurrentConfig.energyCost
          /\ cooldownEndTime' = totalTime + CurrentConfig.cooldown
          /\ lastFireTime' = totalTime
          /\ currentWeaponType' = currentWeaponType
          /\ Len(WeaponFireEvents(emitted')) = 1
          /\ WeaponFireEvents(emitted')[1].energyRemaining = currentEnergy'
          /\ WeaponFireEvents(emitted')[1].weaponType = currentWeaponType]_vars

\* the cannon has fired: five units paid, a cooldown of a second started
C16_Witness ==
    /\ outcome.op = "fire" /\ outcome.ret = "true"
    /\ currentWeaponType = BULLET_TYPE_CANNON
    /\ cooldownEndTime > totalTime
    /\ currentEnergy < maxEnergy

\* the nodes that a step makes active: inactive or not yet made before it, active after it
BecameActive ==
    {n \in DOMAIN nodes' : nodes'[n].active /\ (n \notin DOMAIN nodes \/ ~nodes[n].active)}

\* the number of bullets of a weapon type's pattern
PatternCount(weaponType) ==
    IF weaponType = BULLET_TYPE_MULTIPLE
    THEN DEFAULT_WEAPON_CONFIGS[weaponType].bulletCount
    ELSE 1

\* C17: a fire that returns true makes as many bullets active as the pattern
\* of the weapon type has: one for Normal, Cannon and Laser, bulletCount for
\* Multiple; so no fire returns true without its bullets.
C17_FireSpawnsPattern ==
    [][(outcome'.op = "fire" /\ outcome'.ret = "true")
       => Cardinality(BecameActive) = PatternCount(currentWeaponType)]_vars

\* the angular offset of bullet n, a fraction, is d degrees
OffsetIs(n, d) ==
    /\ nodes'[n].bulletData # Null
    /\ nodes'[n].bulletData[1].angleOffset[1] = d * nodes'[n].bulletData[1].angleOffset[2]

\* C18: a fire of the Multiple weapon (bulletCount 3, spreadAngle 30) makes
\* three bullets active, at the offsets -15, 0 and +15 degrees from the aim.
C18_MultipleSpread ==
    [][(outcome'.op = "fire" /\ outcome'.ret = "true"
          /\ currentWeaponType = BULLET_TYPE_MULTIPLE)
       => /\ Cardinality(BecameActive) = 3
          /\ \A d \in {-15, 0, 15} : \E n \in BecameActive : OffsetIs(n, d)
          /\ \A n \in BecameActive : \E d \in {-15, 0, 15} : OffsetIs(n, d)]_vars

\* target is a valid hit for the bullet node: not hit before, not the owner's
\* tag, and a tag the bullet may damage
ValidHit(node, target) ==
    /\ target \notin node.hitTargets
    /\ GetNodeTag(target) # node.ownerTag
    /\ GetNodeTag(target) \in node.targetTags \/ node.targetTags = {}

C20_SwitchKeepsCooldown ==
    [][/\ outcome'.op = "switchWeapon"
          => \A weaponType \in WeaponType :
                SwitchWeapon(weaponType)
                => /\ outcome'.ret = "false"
                         <=> (weaponType = currentWeaponType \/ weaponType \notin bulletPrefabs)
                   /\ outcome'.ret = "false"
                         => currentWeaponType' = currentWeaponType /\ emitted' = <<>>
                   /\ outcome'.ret = "true" => currentWeaponType' = weaponType
                   /\ UNCHANGED <<currentEnergy, cooldownEndTime, lastFireTime, activeBullets,
                                  bulletPools, nodes, weaponConfigs>>
       /\ (outcome.op = "switchWeapon" /\ outcome'.op = "fire" /\ totalTime < cooldownEndTime)
          => outcome'.ret = "false"]_vars

\* the weapon has been switched while the cooldown of the old one is running
C20_Witness ==
    /\ outcome.op = "switchWeapon" /\ outcome.ret = "true"
    /\ totalTime < cooldownEndTime

\* the contact made last was of a bullet with a target that it had hit before
RepeatedContact ==
    /\ outcome.op = "onBeginContact"
    /\ outcome.target \in nodes[outcome.bullet].hitTargets
    /\ emitted = <<>>

\* C21: between the moment a bullet is made active and its recycling, no
\* target is damaged by it more than once, however many contacts with the
\* target are reported; a contact with a target that the bullet has hit
\* already changes neither its hit count nor its active flag (nor anything
\* else of it) and damages nobody.
C21_AtMostOnceDamage ==
    [][/\ \A b \in DOMAIN nodes' :
             \A i, j \in 1 .. Len(nodes'[b].damaged) :
                i # j => nodes'[b].damaged[i] # nodes'[b].damaged[j]
       /\ (outcome'.op = "onBeginContact"
              /\ outcome'.target \in nodes[outcome'.bullet].hitTargets)
          => /\ nodes'[outcome'.bullet].hitCount = nodes[outcome'.bullet].hitCount
             /\ nodes'[outcome'.bullet].active = nodes[outcome'.bullet].active
             /\ nodes' = nodes
             /\ emitted' = <<>>]_vars

\* a bullet that goes through targets has met a target for the second time,
\* after hitting it once, and is still in flight
C21_Witness ==
    /\ RepeatedContact
    /\ nodes[outcome.bullet].active
    /\ nodes[outcome.bullet].hitCount = 1
    /\ nodes[outcome.bullet].damaged = <<outcome.target>>

\* the tag of the target is the bullet's owner tag, or the bullet has a list
\* of target tags that is not empty and does not hold the tag
FilteredOut(node, target) ==
    \/ GetNodeTag(target) = node.ownerTag
    \/ node.targetTags # {} /\ GetNodeTag(target) \notin node.targetTags

\* C22: a contact with a target whose tag is the bullet's owner tag, or is
\* not in the bullet's non-empty list of target tags, damages nobody, adds
\* nothing to the hit set, leaves the hit count and does not recycle the
\* bullet; and a bullet with an empty list hits a target of any other tag
\* than its owner's (a target it has not hit, while it can still hit).
C22_TargetFiltering ==
    [][outcome'.op = "onBeginContact"
       => LET b == outcome'.bullet
              t == outcome'.target
          IN  /\ FilteredOut(nodes[b], t)
                 => /\ nodes'[b].damaged = nodes[b].damaged
                    /\ nodes'[b].hitTargets = nodes[b].hitTargets
                    /\ nodes'[b].hitCount = nodes[b].hitCount
                    /\ nodes'[b].active = nodes[b].active
                    /\ emitted' = <<>>
              /\ (/\ nodes[b].targetTags = {}
                  /\ GetNodeTag(t) # nodes[b].ownerTag
                  /\ t \notin nodes[b].hitTargets
                  /\ ~(nodes[b].hasHit /\ nodes[b].penetration <= 0))
                 => \E i \in 1 .. Len(emitted') :
                       emitted'[i].name = "bullet-hit" /\ emitted'[i].target = t]_vars

\* a bullet that has hit a target met a target of its owner's tag, which is
\* in its list of target tags, and did not hit it
C22_Witness ==
    /\ outcome.op = "onBeginContact"
    /\ GetNodeTag(outcome.target) = nodes[outcome.bullet].ownerTag
    /\ GetNodeTag(outcome.target) \in nodes[outcome.bullet].targetTags
    /\ nodes[outcome.bullet].active
    /\ nodes[outcome.bullet].hitCount = 1
    /\ outcome.target \notin nodes[outcome.bullet].hitTargets
    /\ emitted = <<>>

\* a bullet with an empty list of target tags has hit a target of a third tag
C22_EmptyListReached ==
    /\ outcome.op = "onBeginContact"
    /\ nodes[outcome.bullet].targetTags = {}
    /\ GetNodeTag(outcome.target) = "Neutral"
    /\ outcome.target \in nodes[outcome.bullet].hitTargets

\* the entries of a weapon type's pool, none if there is no pool
PoolOf(pools, weaponType) == IF pools[weaponType] = Null THEN <<>> ELSE pools[weaponType][1]

\* the data of a shot but for the way the bullet has gone since
ShotOf(node) ==
    IF node.bulletData = Null THEN Null
    ELSE <<[node.bulletData[1] EXCEPT !.travelled = 0]>>

\* the bullets that a step hands out: the nodes it configures for a shot
HandedOut ==
    {n \in DOMAIN nodes' :
        /\ nodes'[n].bulletData # Null
        /\ n \notin DOMAIN nodes \/ ShotOf(nodes'[n]) # ShotOf(nodes[n])}

\* node n is free when the step's fire asks for a bullet: it was inactive
\* before the step, or the sweep of the step's update has just recycled it
FreeAtAcquisition(n) ==
    \/ ~nodes[n].active
    \/ /\ outcome'.op = "update"
       /\ n \in activeBullets
       /\ nodes[n].bulletData # Null
       /\ totalTime' - nodes[n].bulletData[1].startTime > nodes[n].bulletData[1].lifetime

FreeEntries(weaponType) ==
    {i \in 1 .. Len(PoolOf(bulletPools, weaponType)) :
        FreeAtAcquisition(PoolOf(bulletPools, weaponType)[i])}

Max(a, b) == IF a > b THEN a ELSE b

\* C23: a bullet that a fire hands out was inactive, or did not exist, just
\* before, belongs to the pool of the weapon type fired and is then active;
\* the pool grows by exactly the bullets of the pattern that its free
\* entries do not cover (free entries are used first, an entry is appended
\* only when all are in flight), the other pools stay; and no call makes a
\* pool shorter or changes its entries.
C23_PoolAcquisition ==
    [][/\ outcome'.fired
          => /\ \A n \in HandedOut :
                   /\ n \notin DOMAIN nodes \/ FreeAtAcquisition(n)
                   /\ n[1] = currentWeaponType
                   /\ nodes'[n].active
             /\ \A t \in WeaponType :
                   bulletPools[t] # Null
                   => Len(PoolOf(bulletPools', t))
                         = Len(PoolOf(bulletPools, t))
                           + (IF t = currentWeaponType
                              THEN Max(0, PatternCount(t) - Cardinality(FreeEntries(t)))
                              ELSE 0)
       /\ \A t \in WeaponType :
             bulletPools[t] # Null
             => /\ bulletPools'[t] # Null
                /\ Len(PoolOf(bulletPools', t)) >= Len(PoolOf(bulletPools, t))
                /\ SubSeq(PoolOf(bulletPools', t), 1, Len(PoolOf(bulletPools, t)))
                      = PoolOf(bulletPools, t)]_vars

\* with every entry of its pool in flight, a weapon has fired: the pool has
\* grown by a new bullet, which is in flight too
C23_Witness ==
    /\ outcome.fired
    /\ Len(PoolOf(bulletPools, currentWeaponType)) > PoolSize
    /\ \A i \in 1 .. Len(PoolOf(bulletPools, currentWeaponType)) :
          nodes[PoolOf(bulletPools, currentWeaponType)[i]].active

\* a bullet recycled by the sweep is in flight again, on a later shot
C23_ReuseReached ==
    /\ outcome.fired
    /\ Len(PoolOf(bulletPools, currentWeaponType)) = PoolSize
    /\ \E n \in activeBullets :
          /\ nodes[n].active
          /\ nodes[n].bulletData # Null
          /\ nodes[n].bulletData[1].startTime = totalTime
          /\ lastFireTime = totalTime
          /\ \E t \in WeaponType : firedAt[t] # Null /\ firedAt[t][1] < totalTime
          /\ \A m \in DOMAIN nodes : m # n => ~nodes[m].active

\* the most nodes that a pool gets under frames of a second or longer
MostEntries == 4
PoolEntries == WeaponType \X (1 .. MostEntries)

\* the age of the shot that node n carries, at the time now
ShotAge(ns, n, now) == now - ns[n].bulletData[1].startTime

\* node n is in flight with a shot made before the present time
InFlightSince(n) ==
    /\ n \in activeBullets
    /\ nodes[n].active
    /\ nodes[n].bulletData # Null
    /\ ShotAge(nodes, n, totalTime) > 0

\* C24: after an update at the time now, no bullet of the active set is older
\* than its lifetime; a bullet that was older has been made inactive, its
\* shot data and hit set cleared, and is out of the active set and in its
\* pool (or is in flight again with the shot that this update fired); a
\* bullet in flight that was not older is still in flight with the same
\* shot; so, as the frames go on, every bullet fired comes back to the pool.
C24_LifetimeSweep ==
    /\ [][outcome'.op = "update"
           => LET now == totalTime + outcome'.deltaTime
              IN  /\ \A n \in activeBullets' :
                        /\ nodes'[n].bulletData # Null
                        /\ ShotAge(nodes', n, totalTime') <= nodes'[n].bulletData[1].lifetime
                  /\ \A n \in activeBullets :
                        nodes[n].bulletData # Null
                        => IF ShotAge(nodes, n, now) > nodes[n].bulletData[1].lifetime
                           THEN /\ nodes'[n].hitTargets = {}
                                /\ nodes'[n].hitCount = 0
                                /\ \E i \in 1 .. Len(PoolOf(bulletPools', n[1])) :
                                      PoolOf(bulletPools', n[1])[i] = n
                                /\ \/ /\ ~nodes'[n].active
                                      /\ nodes'[n].bulletData = Null
                                      /\ n \notin activeBullets'
                                   \/ /\ outcome'.fired
                                      /\ nodes'[n].active
                                      /\ nodes'[n].bulletData # Null
                                      /\ ShotAge(nodes', n, totalTime') = 0
                                      /\ n \in activeBullets'
                           ELSE nodes[n].active
                                => /\ nodes'[n].active
                                   /\ n \in activeBullets'
                                   /\ nodes'[n].bulletData # Null
                                   /\ ShotAge(nodes', n, totalTime') = ShotAge(nodes, n, now)
                                   /\ nodes'[n].hitTargets = nodes[n].hitTargets]_vars
    /\ \A n \in PoolEntries :
          (n \in DOMAIN nodes /\ InFlightSince(n)) ~> ~(n \in DOMAIN nodes /\ InFlightSince(n))

\* every pool fits the entries that the claims range over
PoolsFit == \A t \in WeaponType : Len(PoolOf(bulletPools, t)) <= MostEntries

\* a pool has grown, for bullets that were in flight together, and the sweep
\* has brought every bullet back
C24_Witness ==
    /\ outcome.op = "update"
    /\ \E t \in WeaponType : Len(PoolOf(bulletPools, t)) > PoolSize
    /\ activeBullets = {}
    /\ \A n \in DOMAIN nodes : ~nodes[n].active /\ nodes[n].bulletData = Null

(***************************************************************************)
(* The event manager (EventManager.ts).  A listener is a record; its `id`  *)
(* stands for the identity of the listener object, which emit compares     *)
(* with indexOf.  The callbacks are the callers' code: `record` does       *)
(* nothing, `fail` throws, `emitAgain` emits the same event again the      *)
(* first time it runs, `removeRecord` calls off(eventType, record),        *)
(* `removeAll` calls off(eventType), `clearOwner` calls                    *)
(* clearTargetListeners(owner).  No callback registers a listener, so the  *)
(* array that emit holds is the array as it was when emit began.           *)
(* The operations are written on a record `em` of the manager's fields and *)
(* of the history kept with them.                                          *)
(***************************************************************************)
\* number of calls made on the event manager in one behaviour
MaxEventCalls == 4
\* most listeners of one event type
MaxListeners == 3

Manager ==
    [listeners |-> eventListeners, count |-> listenerCount, invocations |-> invocations,
     emits |-> emits, removed |-> removed]

ListenersOf(em, eventType) ==
    IF em.listeners[eventType] = Null THEN <<>> ELSE em.listeners[eventType][1]

Ids(listeners) == {listeners[i].id : i \in 1 .. Len(listeners)}

RegisteredIds(em) == UNION {Ids(ListenersOf(em, t)) : t \in EventTypes}

\* the bodies of on and once, which differ in the flag
Listen(em, eventType, callback, target, once) ==
    [em EXCEPT !.listeners[eventType] =
                   Some(Append(ListenersOf(em, eventType),
                               [id |-> em.count + 1, callback |-> callback,
                                target |-> target, once |-> once])),
               !.count = @ + 1]

\* the map of the listeners is replaced by a removal: the listeners that are
\* gone are remembered
Removal(em, listeners) ==
    [em EXCEPT !.listeners = listeners,
               !.removed = @ \cup (RegisteredIds(em) \ RegisteredIds([em EXCEPT !.listeners = listeners]))]

\* off; callback and target are null or given
OffOn(em, eventType, callback, target) ==
    IF em.listeners[eventType] = Null THEN em
    ELSE LET listeners == em.listeners[eventType][1]
         IN  IF callback = Null
             THEN IF target # Null
                  THEN Removal(em, [em.listeners EXCEPT ![eventType] =
                           Some(SelectSeq(listeners, LAMBDA l : l.target # target))])
                  ELSE Removal(em, [em.listeners EXCEPT ![eventType] = Null])
             ELSE Removal(em, [em.listeners EXCEPT ![eventType] =
                      Some(SelectSeq(listeners,
                                     LAMBDA l : IF target # Null
                                                THEN l.callback # callback[1] \/ l.target # target
                                                ELSE l.callback # callback[1]))])

ClearTargetListenersOn(em, target) ==
    Removal(em, [t \in EventTypes |->
                    IF em.listeners[t] = Null THEN Null
                    ELSE Some(SelectSeq(em.listeners[t][1], LAMBDA l : l.target # Some(target)))])

TimesRun(em, id) ==
    Cardinality({i \in 1 .. Len(em.invocations) : em.invocations[i].listener.id = id})

RECURSIVE EmitOn(_, _)
RECURSIVE CallListeners(_, _, _, _, _, _, _)
RECURSIVE RunCallback(_, _, _)

\* the callback of listener runs: [em, thrown]
RunCallback(em, eventType, listener) ==
    CASE listener.callback = "fail" -> [em |-> em, thrown |-> TRUE]
      [] listener.callback = "emitAgain" ->
           [em |-> IF TimesRun(em, listener.id) = 1 THEN EmitOn(em, eventType) ELSE em,
            thrown |-> FALSE]
      [] listener.callback = "removeRecord" ->
           [em |-> OffOn(em, eventType, Some("record"), Null), thrown |-> FALSE]
      [] listener.callback = "removeAll" ->
           [em |-> OffOn(em, eventType, Null, Null), thrown |-> FALSE]
      [] listener.callback = "clearOwner" ->
           [em |-> ClearTargetListenersOn(em, "owner"), thrown |-> FALSE]
      [] OTHER -> [em |-> em, thrown |-> FALSE]

\* the loop of emit over listenersToCall from its i-th entry: [em, listenersToRemove].
\* `run` numbers this run of emit, `removedBefore` are the listeners removed
\* before it began.
CallListeners(em, eventType, listenersToCall, i, listenersToRemove, run, removedBefore) ==
    IF i > Len(listenersToCall)
    THEN [em |-> em, listenersToRemove |-> listenersToRemove]
    ELSE LET listener == listenersToCall[i]
             called == [em EXCEPT !.invocations =
                           Append(@, [listener |-> listener, emit |-> run,
                                      stale |-> listener.id \in removedBefore])]
             r == RunCallback(called, eventType, listener)
         IN  CallListeners(r.em, eventType, listenersToCall, i + 1,
                           IF ~r.thrown /\ listener.once
                           THEN Append(listenersToRemove, listener)
                           ELSE listenersToRemove,
                           run, removedBefore)

\* emit
EmitOn(em, eventType) ==
    IF em.listeners[eventType] = Null \/ Len(ListenersOf(em, eventType)) = 0 THEN em
    ELSE LET listeners == em.listeners[eventType][1]
             begun == [em EXCEPT !.emits =
                          Append(@, [i \in 1 .. Len(listeners) |-> listeners[i].id])]
             r == CallListeners(begun, eventType, listeners, 1, <<>>,
                                Len(begun.emits), em.removed)
         IN  IF Len(r.listenersToRemove) > 0
             THEN [r.em EXCEPT !.listeners[eventType] =
                      Some(SelectSeq(listeners,
                                     LAMBDA l : l.id \notin Ids(r.listenersToRemove)))]
             ELSE r.em

(***************************************************************************)
(* The calls on the event manager.                                         *)
(***************************************************************************)
StoreManager(em, op) ==
    /\ eventListeners' = em.listeners
    /\ listenerCount' = em.count
    /\ invocations' = em.invocations
    /\ emits' = em.emits
    /\ removed' = em.removed
    /\ eventCall' = [op |-> op]

On(eventType, callback, target) ==
    /\ Len(ListenersOf(Manager, eventType)) < MaxListeners
    /\ StoreManager(Listen(Manager, eventType, callback, target, FALSE), "on")

Once(eventType, callback, target) ==
    /\ Len(ListenersOf(Manager, eventType)) < MaxListeners
    /\ StoreManager(Listen(Manager, eventType, callback, target, TRUE), "once")

Off(eventType, callback, target) ==
    StoreManager(OffOn(Manager, eventType, callback, target), "off")

EmitEvent(eventType) == StoreManager(EmitOn(Manager, eventType), "emit")

ClearTargetListeners(target) ==
    StoreManager(ClearTargetListenersOn(Manager, target), "clearTargetListeners")

\* <<callback, target>> of the listeners that are registered
ListenerInputs ==
    {<<"record", Null>>, <<"record", Some("owner")>>, <<"fail", Null>>,
     <<"emitAgain", Null>>, <<"removeRecord", Null>>, <<"removeAll", Null>>,
     <<"clearOwner", Null>>}
CallbackInputs == {Null, Some("record")}
TargetInputs == {Null, Some("owner")}

EventInit == GridLoaded /\ WeaponsUnused /\ EventManagerConstructed

\* a call on the event manager is counted, and leaves the grid and the weapons alone
EventFrame ==
    steps < MaxEventCalls /\ steps' = steps + 1 /\ UNCHANGED <<gridFields, weaponVars>>

EventNext ==
    \/ EventFrame /\ \E t \in EventTypes, l \in ListenerInputs : On(t, l[1], l[2])
    \/ EventFrame /\ \E t \in EventTypes, l \in ListenerInputs : Once(t, l[1], l[2])
    \/ EventFrame /\ \E t \in EventTypes, c \in CallbackInputs, target \in TargetInputs :
                        Off(t, c, target)
    \/ EventFrame /\ \E t \in EventTypes : EmitEvent(t)
    \/ EventFrame /\ ClearTargetListeners("owner")

EventSpec == EventInit /\ [][EventNext]_vars

(***************************************************************************)
(* Claims about the event manager.                                         *)
(***************************************************************************)
\* the callbacks that one run of emit has run, in order
RunOf(k) == SelectSeq(invocations, LAMBDA e : e.emit = k)

\* every run of emit has run the listeners it found, all of them, in the
\* order of their registration
EveryListenerRunsInOrder ==
    \A k \in 1 .. Len(emits) :
       /\ Len(RunOf(k)) = Len(emits[k])
       /\ \A j \in 1 .. Len(emits[k]) : RunOf(k)[j].listener.id = emits[k][j]
       /\ \A i, j \in 1 .. Len(emits[k]) : i < j => emits[k][i] < emits[k][j]

\* C25: a listener registered with once is run at most once, whatever emits
\* are made (from callbacks too), and is not registered any more after the
\* emit that ran it; the listeners of an emit run in the order of their
\* registration, and a callback that throws does not keep the others from
\* running.
C25_OneShotListeners ==
    /\ \A i \in 1 .. Len(invocations) :
          invocations[i].listener.once
          => /\ TimesRun(Manager, invocations[i].listener.id) <= 1
             /\ invocations[i].listener.id \notin RegisteredIds(Manager)
    /\ EveryListenerRunsInOrder

\* an emit has run a listener after a callback has thrown
ThrowIsolatedReached ==
    \E i, j \in 1 .. Len(invocations) :
       /\ i < j
       /\ invocations[i].emit = invocations[j].emit
       /\ invocations[i].listener.callback = "fail"

\* C29: a listener that off(eventType, callback), off(eventType) or
\* clearTargetListeners(target) has removed, from a callback of a running
\* emit too, is not run by any emit that begins after the removal.
C29_RemovalIsDurable ==
    \A i \in 1 .. Len(invocations) : ~invocations[i].stale

(***************************************************************************)
(* More claims about the weapons.                                          *)
(***************************************************************************)
\* the energy after the regeneration of an update of deltaTime
Regenerated(deltaTime) ==
    IF currentEnergy < maxEnergy
    THEN Min(maxEnergy, currentEnergy + energyRegenRate * deltaTime)
    ELSE currentEnergy

\* C26: an update regenerates the energy, then sweeps and moves the bullets,
\* then fires if autoFire is set and the gates hold: the energy that the
\* update regenerates pays for the shot of the same update, and a bullet
\* that the update fires is neither moved nor swept by that update; without
\* autoFire an update does not fire.
C26_UpdateOrder ==
    [][outcome'.op = "update"
       => LET energy == Regenerated(outcome'.deltaTime)
              gates  == /\ totalTime' >= cooldownEndTime
                        /\ (totalTime' - lastFireTime) * CurrentConfig.fireRate >= 100
                        /\ energy >= CurrentConfig.energyCost
                        /\ TemplateExists
          IN  /\ outcome'.fired <=> (autoFire /\ gates)
              /\ currentEnergy' = IF outcome'.fired
                                  THEN energy - CurrentConfig.energyCost
                                  ELSE energy
              /\ outcome'.fired
                 => \A n \in HandedOut :
                       /\ nodes'[n].active
                       /\ n \in activeBullets'
                       /\ nodes'[n].bulletData[1].startTime = totalTime'
                       /\ nodes'[n].bulletData[1].travelled = 0
              /\ ~autoFire
                 => /\ HandedOut = {}
                    /\ emitted' = <<>>
                    /\ lastFireTime' = lastFireTime]_vars

\* an update has fired a shot that the energy before it could not pay: the
\* energy it regenerated, without reaching the maximum, did
C26_Witness ==
    /\ outcome.op = "update" /\ outcome.fired
    /\ currentEnergy + CurrentConfig.energyCost < maxEnergy
    /\ currentEnergy < energyRegenRate * outcome.deltaTime
    /\ \E n \in activeBullets :
          /\ nodes[n].active
          /\ nodes[n].bulletData # Null
          /\ nodes[n].bulletData[1].startTime = totalTime
          /\ nodes[n].bulletData[1].travelled = 0

\* C27: every bullet of the active set is active: a bullet that a hit has
\* destroyed is in the active set no more than one that the sweep has
\* recycled.
C27_ActiveSetConsistent == \A n \in activeBullets : nodes[n].active

\* a bullet that a hit has destroyed is moved on by a later update
DestroyedBulletMoved ==
    /\ outcome.op = "update"
    /\ \E n \in activeBullets :
          /\ ~nodes[n].active
          /\ nodes[n].damaged = <<>>
          /\ nodes[n].bulletData # Null
          /\ nodes[n].bulletData[1].travelled > 0

(***************************************************************************)
(* Occupancy of the grid.                                                  *)
(***************************************************************************)
\* C28 as stated: in every reachable grid an occupied cell is buildable and
\* has an occupant, and a cell is occupied exactly when it has an occupant.
C28_OccupiedIsBuildable ==
    \A rc \in DOMAIN grid :
        /\ grid[rc].occupied <=> grid[rc].occupant # NoOccupant
        /\ grid[rc].occupied => grid[rc].buildable

\* C28: a cell is occupied exactly when it has an occupant; a cell gets an
\* occupant only by a setCellOccupied that returns true, made when the cell
\* was buildable and not occupied; and setCellType derives the flags of the
\* new type and leaves the occupancy of every cell as it is (so that an
\* occupied cell may come to be not buildable).
C28_OccupancyGuard ==
    [][/\ \A rc \in DOMAIN grid' :
             /\ grid'[rc].occupied <=> grid'[rc].occupant # NoOccupant
             /\ (/\ grid'[rc].occupied
                 /\ rc \in DOMAIN grid => grid'[rc].occupant # grid[rc].occupant)
                => /\ last'.op = "setCellOccupied" /\ last'.ret = "true"
                   /\ rc \in DOMAIN grid
                   /\ grid[rc].buildable
                   /\ ~grid[rc].occupied
       /\ last'.op = "setCellType"
          => /\ DOMAIN grid' = DOMAIN grid
             /\ \A rc \in DOMAIN grid :
                   /\ grid'[rc].occupied = grid[rc].occupied
                   /\ grid'[rc].occupant = grid[rc].occupant
                   /\ grid'[rc].buildable = Buildable(grid'[rc].cellType)]_vars

\* setCellType has left a cell that is occupied and not buildable
C28_Witness ==
    /\ last.op = "setCellType" /\ last.ret = "true"
    /\ \E rc \in DOMAIN grid :
          /\ grid[rc].occupied
          /\ grid[rc].occupant \in Occupants
          /\ ~grid[rc].buildable

(***************************************************************************)
(* Progress of the automatic fire.                                         *)
(***************************************************************************)
\* autoFire is set, the weapon in use has a prefab, the energy regenerates
\* and the weapon's cost is not more than the energy can ever be
AutoFirePossible ==
    /\ autoFire
    /\ TemplateExists
    /\ energyRegenRate > 0
    /\ CurrentConfig.energyCost <= maxEnergy

\* an update has made the automatic fire
AutoFired == outcome.op = "update" /\ outcome.fired

\* C30: whatever fires and switches came before, when from some time on the
\* automatic fire is possible and only updates are made (which never end,
\* their time advancing), an update fires again and again.
C30_AutoFireProgress ==
    <>[](AutoFirePossible /\ outcome.op = "update") => []<>AutoFired

\* the cannon, whose cost is all the energy there can be, has fired again
\* while its shot before is still in flight
C30_Witness ==
    /\ AutoFirePossible /\ AutoFired
    /\ CurrentConfig.energyCost = maxEnergy
    /\ currentEnergy = 0
    /\ lastFireTime = totalTime
    /\ \E n, m \in activeBullets :
          /\ nodes[n].active /\ nodes[m].active
          /\ nodes[n].bulletData # Null /\ nodes[m].bulletData # Null
          /\ nodes[n].bulletData[1].startTime = totalTime
          /\ nodes[m].bulletData[1].startTime < totalTime

\* without regeneration the automatic fire comes to an end
AutoFireRunsDry ==
    /\ autoFire /\ TemplateExists /\ energyRegenRate = 0
    /\ outcome.op = "update" /\ ~outcome.fired
    /\ currentEnergy < CurrentConfig.energyCost
    /\ CooldownOver /\ IntervalPassed

====
